---- MODULE Spec2Model ----
(***************************************************************************)
(* Voice-driven navigation orchestrator (src/unnamed/part_002, the page    *)
(* script; src/pages/map.tsx is its React port).                           *)
(*                                                                         *)
(* Specification Spec is the microphone lifecycle: the speech-recognition  *)
(* object with its dynamic flags, the timers and speech-completion         *)
(* callbacks that start and stop it, the navigation flag and the route     *)
(* control whose callbacks write it.  Execution is single-threaded: each   *)
(* action is one event handler, timer callback or browser event, run to    *)
(* completion.  Timers are untimed: a pending timer may fire at any later   *)
(* step, timers of one delay fire in the order they were set.              *)
(*                                                                         *)
(* Every speech request of this specification has priority = true, so the  *)
(* duplicate check and the announcement queue of speakText (read only for  *)
(* priority = false) are not exercised here.                               *)
(***************************************************************************)
EXTENDS Integers, Sequences, FiniteSets, TLC

(* ------------------------------ bounds -------------------------------- *)
\* The environment (user, GPS, router outcome aside) delivers a new event that
\* creates work only while fewer than MaxTasks callbacks are pending.
MaxTasks == 2
\* distinct destinations (pairwise more than ~111 m apart)
MaxDest == 1
\* distinct user positions (pairwise more than ~11 m apart)
MaxPos == 2

Dests == 1..MaxDest
Positions == 1..MaxPos
NoRoute == [start |-> 0, end |-> 0, shown |-> FALSE, pending |-> FALSE, handlers |-> "none"]

VARIABLES
    \* ---- speech recognition (part_002:38-41 and the dynamic flags) ----
    isListening,        \* let isListening
    stopped,            \* recognition._stopped
    waiting,            \* recognition._waitingForNavigasi
    hasUserInteraction, \* let hasUserInteraction
    engine,             \* the recognizer itself: "off", "on", "stopping" (stop() called, end event due),
                        \* "failed" (error event fired, end event due)
    clickArmed,         \* a once-only click/touchstart handler is registered (onerror 'not-allowed')
    voiceStatus,        \* the status line, abstracted to the site that wrote it last
    \* ---- navigation and route ----
    isNavigating,       \* let isNavigating
    latLngB,            \* destination, 0 = null
    userPos,            \* currentUserPosition marker, 0 = null
    route,              \* the routing control, NoRoute = null
    \* ---- timers ----
    welcomeTimer,       \* the 2000 ms page-load timer of announceWelcomeGuide
    autoRestart,        \* pending 1000 ms timers set by recognition.onend
    haloStart,          \* pending 100 ms timers set by the activation branch
    reopenTimers,       \* pending 500 ms timers: "confirm" (after a destination), "retry" (after a routing error)
    confirmTimers,      \* pending 10 s confirmation-window timers
    navTimers,          \* pending 500 ms timers calling announceNextDirection
    geocodes,           \* geocoding requests awaiting their response
    \* ---- speech synthesis ----
    isSpeaking,         \* let isSpeaking
    speakTimers,        \* pending 100 ms timers of speakText, each to utter one text
    synth,              \* the synthesizer's utterance queue; its head is the one spoken
    completions,        \* pending 100 ms onComplete timers
    \* ---- history (not program state) ----
    navSilenced,        \* StartNavigation was processed and neither Activate nor a gesture since
    denied,             \* a 'not-allowed' error was handled and no gesture since
    navOwed,            \* StartNavigation was accepted and isNavigating not yet set by it
    waitOwed,           \* a destination was resolved while listening, its announcement was not cut
                        \* and its reopen callback has not yet found the microphone closed
    expired,            \* the confirmation window timed out and the user did nothing since
    toggledOff,         \* the microphone button stopped recognition; its end event is due and
                        \* the user did nothing since
    haloOwed,           \* Activate was processed with the microphone not listening; no
                        \* recognition start and no other user action since
    lastError,          \* the error the last step delivered to recognition.onerror, or "none"
    heldBack,           \* the last step was an auto-restart callback that only isNavigating kept from starting
    \* ---- the React port (src/pages/map.tsx), specification SpecPort ----
    port,               \* its refs, timers and speech queue, as one record
    \* ---- turn-by-turn guidance (part_002:3405-3660), specification SpecGuide ----
    guide,              \* the rendered instruction rows and the announcement bookkeeping
    \* ---- the announcement queue (part_002:3045-3138), specification SpecSpeech ----
    tts,                \* speakText's flags, queue and timers, and the speech engine
    \* ---- GPS fixes (part_002:369-534, 1044-1112), specification SpecGps ----
    gps,                \* bestGPSLocation, the marker and the start handed to routing
    \* ---- routing controls (part_002:662-1036, 2789-2847), specification SpecRoute ----
    rt,                 \* the controls on the map, their requests and the navigation flags
    \* ---- voice commands (part_002:2155-2375, map.tsx:474-633), specification SpecCommand ----
    cmd,                \* the last transcript, what it was taken for and what it caused
    \* ---- the route store (part_002:1536-1726, 2079-2108), specification SpecStore ----
    store,                \* savedRoutes, localStorage, the cloud copy and the load under way
    \* ---- the geolocation subscriptions (part_002:1115-1217, map.tsx:162-215), specification SpecTracking ----
    track                 \* location interval and position watchers

pageVars == <<isListening, stopped, waiting, hasUserInteraction, engine, clickArmed,
          voiceStatus, isNavigating, latLngB, userPos, route, welcomeTimer,
          autoRestart, haloStart, reopenTimers, confirmTimers, navTimers,
          geocodes, isSpeaking, speakTimers, synth, completions,
          navSilenced, denied, navOwed, waitOwed, expired, toggledOff, haloOwed,
          lastError, heldBack>>

vars == <<pageVars, port, guide, tts, gps, rt, cmd, store, track>>

\* The program state as one record, so that a handler is a function from the
\* state before it to the state after it and calls compose.
Cur ==
    [isListening |-> isListening, stopped |-> stopped, waiting |-> waiting,
     hasUserInteraction |-> hasUserInteraction, engine |-> engine,
     clickArmed |-> clickArmed, voiceStatus |-> voiceStatus,
     isNavigating |-> isNavigating, latLngB |-> latLngB, userPos |-> userPos,
     route |-> route, welcomeTimer |-> welcomeTimer, autoRestart |-> autoRestart,
     haloStart |-> haloStart, reopenTimers |-> reopenTimers,
     confirmTimers |-> confirmTimers, navTimers |-> navTimers,
     geocodes |-> geocodes,
     isSpeaking |-> isSpeaking, speakTimers |-> speakTimers, synth |-> synth,
     completions |-> completions, navSilenced |-> navSilenced, denied |-> denied,
     navOwed |-> navOwed, waitOwed |-> waitOwed, expired |-> expired,
     toggledOff |-> toggledOff, haloOwed |-> haloOwed]

Assign(t) ==
    /\ isListening' = t.isListening
    /\ stopped' = t.stopped
    /\ waiting' = t.waiting
    /\ hasUserInteraction' = t.hasUserInteraction
    /\ engine' = t.engine
    /\ clickArmed' = t.clickArmed
    /\ voiceStatus' = t.voiceStatus
    /\ isNavigating' = t.isNavigating
    /\ latLngB' = t.latLngB
    /\ userPos' = t.userPos
    /\ route' = t.route
    /\ welcomeTimer' = t.welcomeTimer
    /\ autoRestart' = t.autoRestart
    /\ haloStart' = t.haloStart
    /\ reopenTimers' = t.reopenTimers
    /\ confirmTimers' = t.confirmTimers
    /\ navTimers' = t.navTimers
    /\ geocodes' = t.geocodes
    /\ isSpeaking' = t.isSpeaking
    /\ speakTimers' = t.speakTimers
    /\ synth' = t.synth
    /\ completions' = t.completions
    /\ navSilenced' = t.navSilenced
    /\ denied' = t.denied
    /\ navOwed' = t.navOwed
    /\ waitOwed' = t.waitOwed
    /\ expired' = t.expired
    /\ toggledOff' = t.toggledOff
    /\ haloOwed' = (t.haloOwed /\ ~(t.isListening /\ t.engine = "on"))
    /\ port' = port
    /\ guide' = guide
    /\ tts' = tts
    /\ gps' = gps
    /\ rt' = rt
    /\ cmd' = cmd
    /\ store' = store
    /\ track' = track

Becomes(t) == Assign(t) /\ heldBack' = FALSE /\ lastError' = "none"

(* ------------------------- the recognizer ------------------------------ *)
\* recognition.start() throws InvalidStateError unless the recognizer is off
CanStart(st) == st.engine = "off"

\* recognition.start() that did not throw
recStart(st) == [st EXCEPT !.engine = "on"]

\* recognition.stop(): the end event follows; no effect when not started
recStop(st) == [st EXCEPT !.engine = IF @ = "on" THEN "stopping" ELSE @]

\* updateVoiceStatus(message): the status line, kept apart only for the
\* messages in TrackedStatus; every other message reads "other"
TrackedStatus == {"windowExpired"}
Status(site) == IF site \in TrackedStatus THEN site ELSE "other"
updateVoiceStatus(st, site) == [st EXCEPT !.voiceStatus = Status(site)]

(* ---------------------------- speakText -------------------------------- *)
\* The texts of this specification are named by what their onComplete does;
\* "plain" is a text without onComplete.
\* A text is the callback it carries and, for a route selection, the
\* destination of the selected slot.
T(cb) == [cb |-> cb, d |-> 0]
Plain == T("plain")

\* speakText(text, 'id-ID', true, onComplete): speechSynthesis.cancel() removes
\* every utterance of the synthesizer's queue; each gets an error event and
\* never an end event, so its onComplete is dropped.  The error events come
\* before any timer and utterance.onerror only clears isSpeaking here (the
\* announcement queue stays empty), so they are folded into the cancel.
\* Then a 100 ms timer is set to create the utterance.
speakText(st, text) ==
    [st EXCEPT !.synth = <<>>,
               !.isSpeaking = FALSE,
               !.speakTimers = Append(@, text)]

(* ------------------------------ routing -------------------------------- *)
NewRoute(from, to, h) ==
    [start |-> from, end |-> to, shown |-> FALSE, pending |-> TRUE, handlers |-> h]

\* forceUpdateRoute(userLatLng): remove the control, create a fresh one
forceUpdateRoute(st) ==
    [st EXCEPT !.route = NewRoute(st.userPos, st.latLngB, "force")]

\* updateRoute(userLatLng), called by onLocationFound when a destination is set
updateRoute(st, p) ==
    IF st.latLngB = 0 THEN st
    ELSE IF st.route = NoRoute
    THEN [st EXCEPT !.route = NewRoute(p, st.latLngB, "first")]
    ELSE IF st.route.end # st.latLngB
    THEN [st EXCEPT !.route = NewRoute(p, st.latLngB, "rebuilt")]
    ELSE IF st.route.start # p
    THEN [st EXCEPT !.route.start = p, !.route.pending = TRUE]
    ELSE st

\* updateDestination(lat, lng, name)
updateDestination(st, d) ==
    LET a == [st EXCEPT !.latLngB = d,
                        !.isNavigating = FALSE]
    IN  IF a.userPos # 0 THEN forceUpdateRoute(a) ELSE a

(* ----------------------- recognition handlers -------------------------- *)
\* recognition.onend
onend(st) ==
    LET a == [st EXCEPT !.isListening = FALSE]
    IN  IF ~a.isListening /\ ~a.stopped /\ a.hasUserInteraction /\ ~a.isNavigating
        THEN [a EXCEPT !.autoRestart = @ + 1]
        ELSE a

\* the auto-restart callback without its second look at isNavigating
autoRestartTimerUnchecked(st) ==
    IF ~st.isListening /\ ~st.stopped /\ st.hasUserInteraction
    THEN IF CanStart(st)
         THEN [recStart(st) EXCEPT !.isListening = TRUE]
         ELSE [st EXCEPT !.stopped = TRUE]
    ELSE st

\* the 1000 ms callback set by recognition.onend
autoRestartTimer(st) ==
    IF ~st.isListening /\ ~st.stopped /\ st.hasUserInteraction /\ ~st.isNavigating
    THEN IF CanStart(st)
         THEN [recStart(st) EXCEPT !.isListening = TRUE]
         ELSE [st EXCEPT !.stopped = TRUE]
    ELSE st

\* recognition.onerror with no early return for the transient errors
onerrorNoReturn(st, err) ==
    IF err = "not-allowed"
    THEN [st EXCEPT !.hasUserInteraction = TRUE,
                    !.voiceStatus = Status("clickToEnable"),
                    !.clickArmed = TRUE,
                    !.isListening = FALSE]
    ELSE [st EXCEPT !.voiceStatus = Status("error"), !.isListening = FALSE]

\* recognition.onerror
onerror(st, err) ==
    CASE err = "not-allowed" ->
            [st EXCEPT !.hasUserInteraction = TRUE,
                       !.voiceStatus = Status("clickToEnable"),
                       !.clickArmed = TRUE,
                       !.isListening = FALSE]
      [] err \in {"no-speech", "aborted"} -> st
      [] OTHER ->
            [st EXCEPT !.voiceStatus = Status("error"), !.isListening = FALSE]

\* the once-only click/touchstart handler registered by onerror
clickHandler(st) ==
    LET a == [st EXCEPT !.hasUserInteraction = TRUE, !.clickArmed = FALSE]
    IN  IF ~a.isListening /\ CanStart(a)
        THEN speakText([recStart(a) EXCEPT !.isListening = TRUE,
                                           !.voiceStatus = Status("micOn")], Plain)
        ELSE a

\* recognition.onresult, an interim result containing the activation word
interimHalo(st) ==
    LET a == IF st.stopped
             THEN [st EXCEPT !.stopped = FALSE, !.hasUserInteraction = TRUE]
             ELSE st
    IN  updateVoiceStatus(a, "transcript")

\* handleVoiceCommand, the activation branch
activate(st) ==
    LET a == [st EXCEPT !.voiceStatus = Status("heard"),
                        !.hasUserInteraction = TRUE,
                        !.stopped = FALSE]
    IN  IF ~a.isListening
        THEN [a EXCEPT !.haloStart = @ + 1]
        ELSE speakText(updateVoiceStatus(a, "alreadyOn"), Plain)

\* the 100 ms callback set by the activation branch
haloStartTimer(st) ==
    IF CanStart(st)
    THEN speakText([recStart(st) EXCEPT !.isListening = TRUE,
                                        !.voiceStatus = Status("micOn")], Plain)
    ELSE updateVoiceStatus(st, "error")

\* toggleVoiceListening: the microphone button
toggleVoiceListening(st) ==
    IF st.isListening
    THEN [recStop(st) EXCEPT !.isListening = FALSE]
    ELSE IF CanStart(st)
         THEN speakText([recStart(st) EXCEPT !.isListening = TRUE,
                                             !.voiceStatus = Status("listening")], Plain)
         ELSE st

\* startTurnByTurnNavigation
startTurnByTurnNavigation(st) ==
    IF st.route = NoRoute
    THEN updateVoiceStatus(speakText(st, Plain), "setDestinationFirst")
    ELSE IF st.userPos = 0
    THEN updateVoiceStatus(speakText(st, Plain), "noLocation")
    ELSE LET a == [st EXCEPT !.stopped = TRUE, !.waiting = FALSE]
             b == IF a.isListening
                  THEN [recStop(a) EXCEPT !.isListening = FALSE]
                  ELSE a
         IN  updateVoiceStatus(speakText(b, T("nav1")), "navStarting")

\* the 500 ms callback that reopens the microphone after a destination
reopenForConfirmation(st) ==
    IF ~st.isListening
    THEN IF CanStart(st)
         THEN [recStart(st) EXCEPT !.isListening = TRUE,
                                   !.waiting = TRUE,
                                   !.confirmTimers = @ + 1]
         ELSE [st EXCEPT !.stopped = TRUE]
    ELSE st

\* the confirmation timeout without the write of the stopped flag
confirmTimeoutKeepsRestart(st) ==
    IF st.waiting /\ st.isListening
    THEN [recStop(st) EXCEPT !.waiting = FALSE,
                             !.isListening = FALSE,
                             !.voiceStatus = Status("windowExpired")]
    ELSE st

\* the 10 s callback closing the confirmation window
confirmTimeout(st) ==
    IF st.waiting /\ st.isListening
    THEN [recStop(st) EXCEPT !.stopped = TRUE,
                             !.waiting = FALSE,
                             !.isListening = FALSE,
                             !.voiceStatus = Status("windowExpired")]
    ELSE st

\* the 500 ms callback that reopens the microphone after a routing error;
\* start() is not guarded: when it throws, the callback ends there
reopenAfterRoutingError(st) ==
    IF ~st.isListening /\ CanStart(st)
    THEN [recStart(st) EXCEPT !.isListening = TRUE, !.voiceStatus = Status("micBack")]
    ELSE st

(* ------------------------- voice commands ------------------------------ *)
\* the destination announcement shared by the known-city branch of
\* handleVoiceCommand and the two found branches of geocodeLocation
announceDestination(st, d) ==
    LET a == IF st.isListening
             THEN [recStop(st) EXCEPT !.isListening = FALSE]
             ELSE st
    IN  updateVoiceStatus(updateDestination(speakText(a, T("dest1")), d), "destinationSet")

\* handleRouteCommand(routeId); d = 0 when the slot is missing or empty
handleRouteCommand(st, d) ==
    IF d = 0
    THEN updateVoiceStatus(speakText(st, Plain), "routeUnavailable")
    ELSE LET a == IF st.isListening
                  THEN [recStop(st) EXCEPT !.isListening = FALSE]
                  ELSE st
         IN  updateVoiceStatus(speakText(a, [cb |-> "routeSel", d |-> d]), "routeSelected")

\* geocodeLocation up to its await
geocodeLocation(st) ==
    [speakText(updateVoiceStatus(st, "searching"), Plain) EXCEPT !.geocodes = @ + 1]

\* geocodeLocation, neither the geocoder nor the gazetteer knows the place
locationNotFound(st) ==
    LET a == IF st.isListening
             THEN [recStop(st) EXCEPT !.stopped = TRUE, !.isListening = FALSE]
             ELSE st
    IN  updateVoiceStatus(speakText(a, T("nf1")), "notFound")

(* ----------------------- speech completions ---------------------------- *)
\* onComplete of the welcome guide
welcomeComplete(st) ==
    LET a == [st EXCEPT !.stopped = FALSE]
    IN  IF ~a.isListening
        THEN IF CanStart(a)
             THEN [recStart(a) EXCEPT !.isListening = TRUE, !.voiceStatus = Status("micOn")]
             ELSE updateVoiceStatus(a, "error")
        ELSE a

\* announceRouteDirections(true, onComplete): returns when no route is rendered
announceRouteDirections(st) ==
    IF st.route.shown THEN speakText(st, T("nav2")) ELSE st

\* announceFirstDirections(onComplete); hasFirst: the rendered route has a
\* first meaningful instruction
announceFirstDirections(st, hasFirst) ==
    IF st.route # NoRoute /\ st.route.shown /\ hasFirst
    THEN speakText(st, T("nav3"))
    ELSE updateVoiceStatus(st, "navActiveMicOff")

\* afterRouteAnnouncement with the onComplete of startTurnByTurnNavigation
afterRouteAnnouncement(st, hasFirst) ==
    [announceFirstDirections(updateVoiceStatus(st, "navActive"), hasFirst)
        EXCEPT !.isNavigating = TRUE]

\* the onComplete of a text, run 100 ms after its end event
onComplete(st, text, hasFirst) ==
    CASE text.cb = "welcome" -> welcomeComplete(st)
      [] text.cb = "dest1" -> speakText(st, T("dest2"))
      [] text.cb = "dest2" -> [st EXCEPT !.reopenTimers = Append(@, "confirm")]
      [] text.cb = "routeSel" ->
            [updateDestination(st, text.d) EXCEPT !.reopenTimers = Append(@, "confirm")]
      [] text.cb = "nav1" -> announceRouteDirections(st)
      [] text.cb = "nav2" -> afterRouteAnnouncement(st, hasFirst)
      [] text.cb = "nav3" -> updateVoiceStatus(st, "navActiveMicOff")
      [] text.cb = "rerr1" -> speakText(st, T("rerr2"))
      [] text.cb = "rerr2" -> [st EXCEPT !.reopenTimers = Append(@, "retry")]
      [] text.cb = "nf1" -> speakText(st, Plain)
      [] OTHER -> st

(* ------------------------- route callbacks ----------------------------- *)
\* the routesfound handler (the same writes in all three registrations)
routesfound(st) ==
    [st EXCEPT !.route.pending = FALSE, !.route.shown = TRUE, !.isNavigating = FALSE]

\* the routingerror handler; the control rebuilt inside updateRoute has none
routingerror(st) ==
    LET a == [st EXCEPT !.route.pending = FALSE]
    IN  IF a.route.handlers = "rebuilt" THEN a
        ELSE LET b == IF a.isListening
                      THEN [recStop(a) EXCEPT !.isListening = FALSE]
                      ELSE a
             IN  updateVoiceStatus(speakText(b, T("rerr1")), "routeError")

\* onLocationFound for a fix the filter accepts
onLocationFound(st, p) ==
    LET a == updateRoute([st EXCEPT !.userPos = p], p)
        b == [a EXCEPT !.hasUserInteraction = TRUE]
    IN  IF b.isNavigating THEN [b EXCEPT !.navTimers = @ + 1] ELSE b

\* announceNextDirection; due: an instruction not yet announced is within 200 m
announceNextDirection(st, due) ==
    IF st.route # NoRoute /\ st.isNavigating /\ st.route.shown /\ st.userPos # 0 /\ due
    THEN speakText(st, Plain)
    ELSE st

\* announceWelcomeGuide
announceWelcomeGuide(st) ==
    speakText([st EXCEPT !.voiceStatus = Status("guide"), !.hasUserInteraction = TRUE],
              T("welcome"))

BoolToNat(b) == IF b THEN 1 ELSE 0

(* ---------------- the React port, src/pages/map.tsx -------------------- *)
\* The refs of the component after mount; recognitionRef.current is null
\* until the first toggleVoiceListening, and _stopped / _waitingForNavigasi
\* are properties of the recognition object it holds.
PortInit ==
    [isListening |-> FALSE, stopped |-> FALSE, waiting |-> FALSE,
     isNavigating |-> FALSE, hasRecognition |-> FALSE, engine |-> "off",
     oldEnds |-> 0, userMarker |-> FALSE, destination |-> FALSE,
     routeRef |-> FALSE, routePending |-> FALSE, welcomeTimer |-> TRUE,
     autoRestart |-> 0, haloStart |-> 0, reopenTimers |-> 0,
     confirmTimers |-> 0, fetches |-> 0, synth |-> <<>>, completions |-> <<>>]

\* speak(text, onComplete): cancel(), then speak at once; only onend is set
tsx_speak(p, text) == [p EXCEPT !.synth = <<text>>]

tsx_recStop(p) == [p EXCEPT !.engine = IF @ = "on" THEN "stopping" ELSE @]

\* recog.onend
tsx_onend(p) ==
    LET a == [p EXCEPT !.isListening = FALSE]
    IN  IF a.hasRecognition /\ ~a.stopped /\ ~a.isNavigating
        THEN [a EXCEPT !.autoRestart = @ + 1]
        ELSE a

\* the 1000 ms callback set by recog.onend
tsx_autoRestartTimer(p) ==
    IF p.hasRecognition /\ ~p.isListening /\ ~p.stopped /\ ~p.isNavigating
    THEN IF p.engine = "off"
         THEN [p EXCEPT !.engine = "on", !.isListening = TRUE]
         ELSE [p EXCEPT !.stopped = TRUE]
    ELSE p

\* toggleVoiceListening: stops, or creates a new recognition object and
\* starts it; an object replaced before its end event still delivers it
tsx_toggleVoiceListening(p) ==
    IF p.isListening
    THEN [tsx_recStop(p) EXCEPT !.isListening = FALSE]
    ELSE [p EXCEPT !.hasRecognition = TRUE,
                   !.stopped = FALSE,
                   !.waiting = FALSE,
                   !.oldEnds = IF p.engine = "off" THEN @ ELSE @ + 1,
                   !.engine = "on",
                   !.isListening = TRUE]

\* handleVoiceCommand, the activation branch
tsx_activate(p) ==
    LET a == [p EXCEPT !.stopped = FALSE]
    IN  IF ~a.isListening
        THEN [a EXCEPT !.haloStart = @ + 1]
        ELSE tsx_speak(a, "plain")

\* the 100 ms callback set by the activation branch
tsx_haloStartTimer(p) ==
    IF p.hasRecognition /\ ~p.isListening /\ p.engine = "off"
    THEN tsx_speak([p EXCEPT !.engine = "on", !.isListening = TRUE], "plain")
    ELSE p

\* handleVoiceCommand, the navigation branch
tsx_navigate(p) ==
    LET a == [p EXCEPT !.stopped = TRUE, !.waiting = FALSE]
        b == IF a.isListening
             THEN [tsx_recStop(a) EXCEPT !.isListening = FALSE]
             ELSE a
    IN  [tsx_speak(b, "plain") EXCEPT !.isNavigating = TRUE]

\* drawRoute(start, end)
tsx_drawRoute(p) == [p EXCEPT !.routeRef = TRUE, !.routePending = TRUE]

\* handleVoiceDestination, a known city or a geocoded place
tsx_announceDestination(p) ==
    LET a == [p EXCEPT !.destination = TRUE]
        b == IF a.userMarker THEN tsx_drawRoute(a) ELSE a
        c == IF b.isListening
             THEN [tsx_recStop(b) EXCEPT !.isListening = FALSE]
             ELSE b
    IN  tsx_speak(c, "dest1")

\* the 500 ms callback that reopens the microphone after a destination
tsx_reopenForConfirmation(p) ==
    IF p.hasRecognition /\ ~p.isListening
    THEN IF p.engine = "off"
         THEN [p EXCEPT !.engine = "on", !.isListening = TRUE, !.waiting = TRUE,
                        !.confirmTimers = @ + 1]
         ELSE [p EXCEPT !.stopped = TRUE]
    ELSE p

\* the 10 s callback closing the confirmation window
tsx_confirmTimeout(p) ==
    IF p.hasRecognition /\ p.waiting /\ p.isListening
    THEN [tsx_recStop(p) EXCEPT !.stopped = TRUE, !.waiting = FALSE,
                                !.isListening = FALSE]
    ELSE p

\* the onComplete of a text, run 100 ms after its end event
tsx_onComplete(p, text) ==
    CASE text = "welcome" -> tsx_toggleVoiceListening(p)
      [] text = "dest1" -> tsx_speak(p, "dest2")
      [] text = "dest2" -> [p EXCEPT !.reopenTimers = @ + 1]
      [] OTHER -> p

\* the watchPosition success callback
tsx_watchPosition(p) ==
    LET a == [p EXCEPT !.userMarker = TRUE]
    IN  IF a.destination THEN tsx_drawRoute(a) ELSE a

\* the routesfound handler of drawRoute
tsx_routesfound(p) == tsx_speak([p EXCEPT !.routePending = FALSE], "plain")

PortTasks(p) ==
    p.autoRestart + p.haloStart + p.reopenTimers + p.confirmTimers + p.fetches
    + Len(p.synth) + Len(p.completions) + p.oldEnds + BoolToNat(p.welcomeTimer)
    + BoolToNat(p.routePending) + BoolToNat(p.engine = "stopping")

\* the guidance bookkeeping at page load: no route, nothing announced
\* the six empty route slots of initializeSavedRoutes; <<>> is null
EmptySlots == [i \in 1..6 |-> [start |-> <<>>, end |-> <<>>]]

\* a slot of savedRoutes; data 0 is a slot whose start and end are null
Slot(i, d) == [id |-> i, data |-> d]

\* the six empty slots that initializeSavedRoutes and loadRoutesFromFirestore write out
SixEmpty == [i \in 1..6 |-> Slot(i, 0)]

\* before the script or the component runs: no interval, no watcher
TrackingInit ==
    [b |-> "none", asked |-> FALSE, hasPermission |-> FALSE, mapReady |-> FALSE, permissionOpen |-> TRUE, destination |-> 0,
     locationInterval |-> 0, intervals |-> {}, timeouts |-> 0, locating |-> 0,
     watchIdRef |-> 0, watches |-> {}, drawn |-> 0, nextId |-> 1]

\* before initializeSavedRoutes: savedRoutes = [], nothing read, nothing asked for
RouteStoreInit ==
    [phase |-> "none", savedRoutes |-> <<>>, localStorage |-> <<>>,
     db |-> FALSE, cloud |-> [i \in 1..6 |-> 0], sent |-> [i \in 1..6 |-> 0],
     writes |-> <<>>, loading |-> FALSE, touched |-> {},
     did |-> "none"]

\* before the page is loaded: nothing heard, no destination, no request
CommandInit ==
    [build |-> "none", n |-> 0, heard |-> <<>>,
     kind |-> "none", id |-> 0, x |-> <<>>, y |-> <<>>,
     spoke |-> FALSE, told |-> "none", asked |-> {},
     slotRead |-> {}, slotWritten |-> {},
     geo |-> {}, create |-> {}, announce |-> 0, haloTimer |-> FALSE,
     reopen |-> FALSE, navPending |-> FALSE,
     dest |-> <<>>, isListening |-> FALSE, isNavigating |-> FALSE,
     route |-> FALSE, pos |-> FALSE, slots |-> EmptySlots]

\* no routing control: route = null
NoCtl == [id |-> 0, start |-> 0, end |-> 0, handlers |-> "none", readable |-> FALSE]

\* no destination, no position, no control
RouteInit ==
    [latLngB |-> 0, marker |-> 0, cur |-> NoCtl, onMap |-> {}, inflight |-> {},
     n |-> 0, isNavigating |-> FALSE, announced |-> FALSE, retired |-> FALSE,
     shown |-> FALSE, lastRouteHash |-> 0, routeRef |-> 0, portMap |-> {},
     failed |-> FALSE, midNav |-> FALSE, requested |-> FALSE, spoke |-> FALSE,
     inPlace |-> FALSE, destined |-> FALSE, located |-> FALSE]

\* no fix yet: bestGPSLocation = null, currentUserPosition = null
GpsInit ==
    [best |-> [has |-> FALSE, pos |-> "none", acc |-> 0], marker |-> "none",
     status |-> "none", start |-> "none", dest |-> FALSE, req |-> "idle",
     held |-> [pos |-> "none", acc |-> 0],
     fix |-> [pos |-> "none", acc |-> 0], rejected |-> FALSE]

\* a request to speakText; id is a serial number (history)
Request(id, text, priority, cb) ==
    [id |-> id, text |-> text, priority |-> priority, cb |-> cb]

\* the announcement queue before the first request
SpeechInit ==
    [isSpeaking |-> FALSE, lastSpokenMessage |-> "", announcementQueue |-> <<>>,
     timers |-> <<>>, synth |-> <<>>, errors |-> 0, n |-> 0,
     started |-> Request(0, "", FALSE, "none"), again |-> FALSE, recent |-> <<>>,
     owed |-> <<>>, prioOwed |-> 0, ahead |-> {}, follow |-> 0,
     overtaken |-> FALSE]

GuideInit ==
    [rid |-> 0, rows |-> <<>>, pending |-> FALSE, latLngB |-> FALSE,
     isNavigating |-> FALSE, announced |-> {}, last |-> "none",
     nextTimers |-> 0, rtTimers |-> <<>>,
     \* history
     said |-> 0, spokenRows |-> {}, respoken |-> FALSE, lastT |-> -1, prevT |-> -1]

(* ------------------------------ actions -------------------------------- *)

\* callbacks and events that are due
Tasks(st) ==
    st.autoRestart + st.haloStart + Len(st.reopenTimers) + st.confirmTimers
    + st.navTimers + st.geocodes + Len(st.speakTimers) + Len(st.synth)
    + Len(st.completions) + BoolToNat(st.welcomeTimer)
    + BoolToNat(st.route.pending) + BoolToNat(st.engine \in {"stopping", "failed"})

Room == Tasks(Cur) < MaxTasks

\* a final result can be delivered while the recognizer runs or is stopping
CanHear == engine \in {"on", "stopping"}

\* recognition.onresult for a final transcript, up to the dispatch in
\* handleVoiceCommand
Heard == updateVoiceStatus(Cur, "heard")

\* history: the user spoke a command or made a gesture
UserActed(st) ==
    [st EXCEPT !.navOwed = FALSE, !.waitOwed = FALSE, !.expired = FALSE,
               !.toggledOff = FALSE, !.haloOwed = FALSE]

\* history: a text from outside the pending announcement chain was spoken
ChainCut(st) == [st EXCEPT !.navOwed = FALSE, !.waitOwed = FALSE]

Init ==
    /\ isListening = FALSE /\ stopped = FALSE /\ waiting = FALSE
    /\ hasUserInteraction = FALSE /\ engine = "off" /\ clickArmed = FALSE
    /\ voiceStatus = Status("none")
    /\ isNavigating = FALSE /\ latLngB = 0 /\ userPos = 0 /\ route = NoRoute
    /\ welcomeTimer = TRUE /\ autoRestart = 0 /\ haloStart = 0
    /\ reopenTimers = <<>> /\ confirmTimers = 0 /\ navTimers = 0 /\ geocodes = 0
    /\ isSpeaking = FALSE /\ speakTimers = <<>> /\ synth = <<>>
    /\ completions = <<>>
    /\ navSilenced = FALSE /\ denied = FALSE /\ navOwed = FALSE
    /\ waitOwed = FALSE /\ expired = FALSE /\ toggledOff = FALSE
    /\ haloOwed = FALSE /\ lastError = "none" /\ heldBack = FALSE
    /\ port = PortInit
    /\ guide = GuideInit
    /\ tts = SpeechInit
    /\ gps = GpsInit
    /\ rt = RouteInit
    /\ cmd = CommandInit
    /\ store = RouteStoreInit
    /\ track = TrackingInit

\* the 2000 ms page-load timer
AnnounceWelcomeGuide ==
    /\ welcomeTimer
    /\ Becomes(ChainCut(announceWelcomeGuide([Cur EXCEPT !.welcomeTimer = FALSE])))

\* the end event: due after stop() or an error, or the recognizer ends by itself
RecognitionEnd ==
    /\ engine # "off"
    /\ engine = "on" => Room
    /\ Becomes([onend([Cur EXCEPT !.engine = "off"]) EXCEPT !.toggledOff = FALSE])

RecognitionError(err) ==
    /\ engine = "on" /\ Room
    /\ Assign([onerror([Cur EXCEPT !.engine = "failed"], err)
                  EXCEPT !.denied = @ \/ err = "not-allowed"])
    /\ heldBack' = FALSE /\ lastError' = err

AutoRestartTimer ==
    /\ autoRestart > 0
    /\ Assign(autoRestartTimer([Cur EXCEPT !.autoRestart = @ - 1]))
    /\ heldBack' = (~isListening /\ ~stopped /\ hasUserInteraction /\ CanStart(Cur)
                      /\ isNavigating)
    /\ lastError' = "none"

InterimHalo ==
    /\ CanHear
    /\ Becomes([interimHalo(Cur) EXCEPT !.navSilenced = @ /\ ~stopped,
                                        !.expired = @ /\ ~stopped,
                                        !.toggledOff = @ /\ ~stopped])

Activate ==
    /\ CanHear /\ Room
    /\ Becomes([UserActed(activate(Heard)) EXCEPT !.navSilenced = FALSE,
                                                  !.haloOwed = ~isListening])

HaloStartTimer ==
    /\ haloStart > 0
    /\ Becomes(haloStartTimer([Cur EXCEPT !.haloStart = @ - 1]))

StartNavigation ==
    /\ CanHear /\ Room
    /\ LET accepted == route # NoRoute /\ userPos # 0
           inWindow == waiting /\ isListening /\ confirmTimers > 0
       IN  Becomes([UserActed(startTurnByTurnNavigation(Heard))
                      EXCEPT !.navSilenced = @ \/ accepted,
                             !.navOwed = accepted /\ inWindow])

KnownCity(d) ==
    /\ CanHear /\ Room
    /\ Becomes([UserActed(announceDestination(Heard, d))
                  EXCEPT !.waitOwed = isListening /\ ~waiting])

RouteCommand(d) ==
    /\ CanHear /\ Room
    /\ Becomes(UserActed(handleRouteCommand(Heard, d)))

LocationCommand ==
    /\ CanHear /\ Room
    /\ Becomes(UserActed(geocodeLocation(Heard)))

\* the geocoder answers: d = 0 when neither it nor the gazetteer has the place
GeocodeResponse(d) ==
    /\ geocodes > 0
    /\ LET a == [Cur EXCEPT !.geocodes = @ - 1]
       IN  IF d = 0
           THEN Becomes(ChainCut(locationNotFound(a)))
           ELSE Becomes([ChainCut(announceDestination(a, d))
                           EXCEPT !.waitOwed = isListening /\ ~waiting])

UnknownCommand ==
    /\ CanHear
    /\ Becomes(UserActed(updateVoiceStatus(Heard, "notUnderstood")))

ReopenTimer ==
    /\ reopenTimers # <<>>
    /\ LET a == [Cur EXCEPT !.reopenTimers = Tail(@)]
       IN  IF Head(reopenTimers) = "confirm"
           THEN LET b == reopenForConfirmation(a)
                IN  Becomes([b EXCEPT !.waitOwed = @ /\ isListening])
           ELSE Becomes(reopenAfterRoutingError(a))

ConfirmTimer ==
    /\ confirmTimers > 0
    /\ Becomes([confirmTimeout([Cur EXCEPT !.confirmTimers = @ - 1])
                  EXCEPT !.expired = @ \/ (waiting /\ isListening)])

\* a click or touch anywhere on the page while the once-only handler is registered
Click ==
    /\ clickArmed /\ Room
    /\ Becomes([UserActed(clickHandler(Cur)) EXCEPT !.denied = FALSE,
                                                    !.navSilenced = FALSE])

\* a click on the microphone button; it bubbles to the document
MicButton ==
    /\ Room
    /\ LET a == toggleVoiceListening(Cur)
           b == IF a.clickArmed THEN clickHandler(a) ELSE a
       IN  Becomes([UserActed(b) EXCEPT !.denied = FALSE, !.navSilenced = FALSE,
                                        !.toggledOff = isListening /\ engine = "on"])

(* --------------------------- speech engine ----------------------------- *)
\* the 100 ms callback of speakText: speechSynthesis.speak(utterance)
SpeakTimer ==
    /\ speakTimers # <<>>
    /\ Becomes([Cur EXCEPT !.speakTimers = Tail(@),
                           !.synth = Append(@, Head(speakTimers))])

\* utterance.onstart
UtteranceStart ==
    /\ synth # <<>> /\ ~isSpeaking
    /\ Becomes([Cur EXCEPT !.isSpeaking = TRUE])

\* utterance.onend
UtteranceEnd ==
    /\ synth # <<>> /\ isSpeaking
    /\ Becomes([Cur EXCEPT !.synth = Tail(@),
                           !.isSpeaking = FALSE,
                           !.completions = IF Head(synth).cb = "plain"
                                           THEN @ ELSE Append(@, Head(synth))])

\* setTimeout(onComplete, 100)
Completion(hasFirst) ==
    /\ completions # <<>>
    /\ hasFirst \/ Head(completions).cb = "nav2"
    /\ LET text == Head(completions)
           a == onComplete([Cur EXCEPT !.completions = Tail(@)], text, hasFirst)
       IN  Becomes([a EXCEPT !.navOwed = @ /\ text.cb # "nav2",
                             !.expired = @ /\ text.cb # "welcome"])

(* ------------------------ router and location -------------------------- *)
RoutesFound ==
    /\ route.pending
    /\ Becomes(routesfound(Cur))

RoutingError ==
    /\ route.pending
    /\ Becomes(ChainCut(routingerror(Cur)))

LocationFound(p) ==
    /\ Room
    /\ Becomes(onLocationFound(Cur, p))

\* the 500 ms callback set by onLocationFound while navigating
NavTimer(due) ==
    /\ navTimers > 0
    /\ Becomes(ChainCut(announceNextDirection([Cur EXCEPT !.navTimers = @ - 1], due)))

Next ==
    \/ AnnounceWelcomeGuide
    \/ RecognitionEnd
    \/ \E err \in {"not-allowed", "no-speech", "aborted", "network"} : RecognitionError(err)
    \/ AutoRestartTimer
    \/ InterimHalo
    \/ Activate
    \/ HaloStartTimer
    \/ StartNavigation
    \/ \E d \in Dests : KnownCity(d)
    \/ \E d \in 0..MaxDest : RouteCommand(d)
    \/ LocationCommand
    \/ \E d \in 0..MaxDest : GeocodeResponse(d)
    \/ UnknownCommand
    \/ ReopenTimer
    \/ ConfirmTimer
    \/ Click
    \/ MicButton
    \/ SpeakTimer
    \/ UtteranceStart
    \/ UtteranceEnd
    \/ \E hasFirst \in BOOLEAN : Completion(hasFirst)
    \/ RoutesFound
    \/ RoutingError
    \/ \E p \in Positions : LocationFound(p)
    \/ \E due \in BOOLEAN : NavTimer(due)

Spec == Init /\ [][Next]_vars

(* ----------------------- actions of the port --------------------------- *)
PortBecomes(q) == port' = q /\ UNCHANGED <<pageVars, guide, tts, gps, rt, cmd, store, track>>

PortRoom == PortTasks(port) < MaxTasks
PortCanHear == port.engine \in {"on", "stopping"}

PortWelcome ==
    /\ port.welcomeTimer
    /\ PortBecomes(tsx_speak([port EXCEPT !.welcomeTimer = FALSE], "welcome"))

PortMicButton ==
    /\ PortRoom
    /\ PortBecomes(tsx_toggleVoiceListening(port))

PortRecognitionEnd ==
    /\ port.engine # "off"
    /\ port.engine = "on" => PortRoom
    /\ PortBecomes(tsx_onend([port EXCEPT !.engine = "off"]))

\* the end event of a recognition object that was replaced
PortOldRecognitionEnd ==
    /\ port.oldEnds > 0
    /\ PortBecomes(tsx_onend([port EXCEPT !.oldEnds = @ - 1]))

PortAutoRestartTimer ==
    /\ port.autoRestart > 0
    /\ PortBecomes(tsx_autoRestartTimer([port EXCEPT !.autoRestart = @ - 1]))

PortActivate ==
    /\ PortCanHear /\ PortRoom
    /\ PortBecomes(tsx_activate(port))

PortHaloStartTimer ==
    /\ port.haloStart > 0
    /\ PortBecomes(tsx_haloStartTimer([port EXCEPT !.haloStart = @ - 1]))

PortStartNavigation ==
    /\ PortCanHear /\ PortRoom
    /\ PortBecomes(tsx_navigate(port))

PortKnownCity ==
    /\ PortCanHear /\ PortRoom
    /\ PortBecomes(tsx_announceDestination(port))

\* handleVoiceDestination for a name the gazetteer lacks, up to its await
PortLocationCommand ==
    /\ PortCanHear /\ PortRoom
    /\ PortBecomes([port EXCEPT !.fetches = @ + 1])

PortGeocodeResponse(found) ==
    /\ port.fetches > 0
    /\ LET a == [port EXCEPT !.fetches = @ - 1]
       IN  PortBecomes(IF found THEN tsx_announceDestination(a)
                                ELSE tsx_speak(a, "plain"))

PortUtteranceEnd ==
    /\ port.synth # <<>>
    /\ PortBecomes([port EXCEPT !.synth = Tail(@),
                                !.completions = IF Head(port.synth) = "plain"
                                                THEN @ ELSE Append(@, Head(port.synth))])

PortCompletion ==
    /\ port.completions # <<>>
    /\ PortBecomes(tsx_onComplete([port EXCEPT !.completions = Tail(@)],
                                  Head(port.completions)))

PortReopenTimer ==
    /\ port.reopenTimers > 0
    /\ PortBecomes(tsx_reopenForConfirmation([port EXCEPT !.reopenTimers = @ - 1]))

PortConfirmTimer ==
    /\ port.confirmTimers > 0
    /\ PortBecomes(tsx_confirmTimeout([port EXCEPT !.confirmTimers = @ - 1]))

PortLocationFound ==
    /\ PortRoom
    /\ PortBecomes(tsx_watchPosition(port))

PortRoutesFound ==
    /\ port.routePending
    /\ PortBecomes(tsx_routesfound(port))

PortNext ==
    \/ PortWelcome
    \/ PortMicButton
    \/ PortRecognitionEnd
    \/ PortOldRecognitionEnd
    \/ PortAutoRestartTimer
    \/ PortActivate
    \/ PortHaloStartTimer
    \/ PortStartNavigation
    \/ PortKnownCity
    \/ PortLocationCommand
    \/ \E found \in BOOLEAN : PortGeocodeResponse(found)
    \/ PortUtteranceEnd
    \/ PortCompletion
    \/ PortReopenTimer
    \/ PortConfirmTimer
    \/ PortLocationFound
    \/ PortRoutesFound

SpecPort == Init /\ [][PortNext]_vars

(* ------------- turn-by-turn guidance, specification SpecGuide ---------- *)
\* A distance cell of the itinerary: the text "<n> m", or "<n/10> km" with
\* one decimal
Metres(n) == [unit |-> "m", n |-> n]

\* formatDistance(meters): (meters / 1000).toFixed(1) + ' km' from 1000 m on,
\* Math.round(meters) + ' m' below
formatDistance(m) ==
    IF m >= 1000 THEN [unit |-> "km", n |-> (m + 50) \div 100] ELSE Metres(m)

\* parseDistance(distanceText)
parseDistance(c) == IF c.unit = "km" THEN c.n * 100 ELSE c.n

\* The routes the router can answer with.  Each instruction has its text (as
\* convertInstructionToNatural returns it), the distance the itinerary shows
\* for it when rendered, and its index into the route's coordinates turned
\* into the distance from the start (currentRouteData.instructions).
Instr(text, dist, cum) == [text |-> text, dist |-> dist, cum |-> cum]

RouteData(r) ==
    IF r = 1
    THEN << Instr("berangkat", 100, 0), Instr("kiri", 150, 100),
            Instr("kanan", 1500, 250), Instr("tiba", 0, 1750) >>
    ELSE << Instr("berangkat", 50, 0), Instr("kiri", 300, 50),
            Instr("kanan", 300, 350), Instr("kiri", 300, 650),
            Instr("lurus", 300, 950), Instr("putar", 100, 1250),
            Instr("tiba", 0, 1350) >>

\* the itinerary table as the routing control renders it
Render(r) ==
    [i \in 1..Len(RouteData(r)) |->
        [cell |-> formatDistance(RouteData(r)[i].dist), hidden |-> FALSE]]

\* text.toLowerCase().includes('head') || ...includes('berangkat')
Generic(text) == text = "berangkat"

PRows == 5
FRows == 10
PASSED_THRESHOLD == 50
AnnounceRange == 200

Min(a, b) == IF a < b THEN a ELSE b
Max(a, b) == IF a > b THEN a ELSE b

\* the text of row i of the rendered itinerary
TextOf(g, i) == RouteData(g.rid)[i].text

\* speakText of an instruction row (history: which rows were spoken)
SayRow(g, i) ==
    [g EXCEPT !.said = i,
              !.respoken = @ \/ (<<g.rid, i>> \in g.spokenRows),
              !.spokenRows = @ \cup {<<g.rid, i>>}]

\* announceFirstDirections: the first row within the first ten that is not
\* the last announced text and is not generic
g_announceFirstDirections(g) ==
    LET ok(i) == TextOf(g, i) # g.last /\ ~Generic(TextOf(g, i))
        cand == {i \in 1..Min(FRows, Len(g.rows)) : ok(i)}
    IN  IF g.rid = 0 \/ cand = {} THEN g
        ELSE LET i == CHOOSE j \in cand : \A k \in cand : j <= k
             IN  SayRow([g EXCEPT !.announced = @ \cup {TextOf(g, i)}], i)

\* the onComplete of the route summary in startTurnByTurnNavigation
g_startNavigation(g) ==
    [g_announceFirstDirections(g) EXCEPT !.isNavigating = TRUE]

\* announceNextDirection: the first row within the first five whose text was
\* not announced, that is not generic and whose cell reads (0, 200] m
g_announceNextDirection(g) ==
    LET ok(i) == /\ TextOf(g, i) # g.last
                 /\ TextOf(g, i) \notin g.announced
                 /\ ~Generic(TextOf(g, i))
                 /\ parseDistance(g.rows[i].cell) <= AnnounceRange
                 /\ parseDistance(g.rows[i].cell) > 0
        cand == {i \in 1..Min(PRows, Len(g.rows)) : ok(i)}
    IN  IF ~g.isNavigating \/ g.rid = 0 \/ cand = {} THEN g
        ELSE LET i == CHOOSE j \in cand : \A k \in cand : j <= k
             IN  SayRow([g EXCEPT !.last = TextOf(g, i),
                                  !.announced = @ \cup {TextOf(g, i)}], i)

\* one row of updateRealTimeInstructions without the skip of hidden rows
g_updateRowNoSkip(g, i, t) ==
    LET row == g.rows[i]
        read == parseDistance(row.cell)
        originalDistanceFromStart ==
            IF read = 0 /\ i - 1 > 0 /\ i - 1 <= Len(RouteData(g.rid))
            THEN RouteData(g.rid)[i - 1].cum
            ELSE read
        remainingDistance ==
            IF i = 1 THEN 0 ELSE Max(0, originalDistanceFromStart - t)
    IN  [cell |-> formatDistance(remainingDistance),
         hidden |-> remainingDistance < PASSED_THRESHOLD]

\* updateRealTimeInstructions, one row: i counts from 1, rowIndex = i - 1
g_updateRow(g, i, t) ==
    LET row == g.rows[i]
        read == parseDistance(row.cell)
        originalDistanceFromStart ==
            IF read = 0 /\ i - 1 > 0 /\ i - 1 <= Len(RouteData(g.rid))
            THEN RouteData(g.rid)[i - 1].cum
            ELSE read
        remainingDistance ==
            IF i = 1 THEN 0 ELSE Max(0, originalDistanceFromStart - t)
    IN  IF row.hidden THEN row
        ELSE [cell |-> formatDistance(remainingDistance),
              hidden |-> remainingDistance < PASSED_THRESHOLD]

\* updateRealTimeInstructions(userLatLng); t is distanceTraveled
g_updateRealTimeInstructions(g, t) ==
    IF ~g.isNavigating \/ g.rid = 0 \/ g.rows = <<>> THEN g
    ELSE [g EXCEPT !.rows = [i \in 1..Len(g.rows) |-> g_updateRow(g, i, t)],
                   !.prevT = g.lastT,
                   !.lastT = t]

\* the routesfound handlers: the itinerary is rendered anew
g_routesfound(g, r) ==
    [g EXCEPT !.rid = r, !.rows = Render(r), !.pending = FALSE,
              !.last = "none", !.announced = {}, !.isNavigating = FALSE,
              !.lastT = -1, !.prevT = -1]

\* updateDestination: forceUpdateRoute removes the control and its itinerary
g_updateDestination(g) ==
    LET a == IF g.isNavigating
             THEN [g EXCEPT !.isNavigating = FALSE, !.announced = {}, !.last = "none"]
             ELSE g
    IN  [a EXCEPT !.latLngB = TRUE, !.rid = 0, !.rows = <<>>, !.pending = TRUE,
                  !.spokenRows = {}, !.lastT = -1, !.prevT = -1]

\* onLocationFound: updateRoute (setWaypoints when the start moved), then the
\* 500 ms and 600 ms timers while navigating
g_onLocationFound(g, t, moved) ==
    LET a == IF g.latLngB /\ g.rid # 0 /\ moved THEN [g EXCEPT !.pending = TRUE] ELSE g
    IN  IF a.isNavigating
        THEN [a EXCEPT !.nextTimers = @ + 1, !.rtTimers = Append(@, t)]
        ELSE a

MaxGuideTimers == 1
Travel == {0, 60, 120}
RouteIds == {1, 2}

GuideBecomes(g) == guide' = g /\ UNCHANGED <<pageVars, port, tts, gps, rt, cmd, store, track>>

\* history: nothing was spoken by this step yet
Quiet == [guide EXCEPT !.said = 0]

GuideSetDestination ==
    /\ ~guide.pending
    /\ GuideBecomes(g_updateDestination(Quiet))

GuideRoutesFound(r) ==
    /\ guide.pending
    /\ GuideBecomes(g_routesfound(Quiet, r))

GuideStartNavigation ==
    /\ guide.rid # 0
    /\ GuideBecomes(g_startNavigation(Quiet))

GuideLocationFound(t, moved) ==
    /\ guide.nextTimers < MaxGuideTimers /\ Len(guide.rtTimers) < MaxGuideTimers
    /\ GuideBecomes(g_onLocationFound(Quiet, t, moved))

GuideNextTimer ==
    /\ guide.nextTimers > 0
    /\ GuideBecomes(g_announceNextDirection([Quiet EXCEPT !.nextTimers = @ - 1]))

GuideRealTimeTimer ==
    /\ guide.rtTimers # <<>>
    /\ guide.nextTimers = 0
    /\ GuideBecomes(g_updateRealTimeInstructions(
                       [Quiet EXCEPT !.rtTimers = Tail(@)], Head(guide.rtTimers)))

GuideNext ==
    \/ GuideSetDestination
    \/ \E r \in RouteIds : GuideRoutesFound(r)
    \/ GuideStartNavigation
    \/ \E t \in Travel, moved \in BOOLEAN : GuideLocationFound(t, moved)
    \/ GuideNextTimer
    \/ GuideRealTimeTimer

SpecGuide == Init /\ [][GuideNext]_vars

(* --------- the announcement queue, specification SpecSpeech ------------ *)
\* speakText(text, lang, priority, onComplete) with its queue, its duplicate
\* filter and its timers, and the speech engine behind it.  A request carries
\* a serial number (history) to tell apart requests of the same text.
MaxReq == 3
Texts == {"a", "b"}
\* onComplete: none, or a callback that speaks a follow-up sentence, without
\* or with priority
Callbacks == {"none", "say", "sayNow"}
FollowUp == "c"

Ids(s) == {s[i].id : i \in 1..Len(s)}

SeqMinus(s, id) == SelectSeq(s, LAMBDA r : r.id # id)

\* window.speechSynthesis.cancel(): every utterance is removed from the
\* engine's queue and gets an error event
s_cancel(t) == [t EXCEPT !.synth = <<>>, !.errors = @ + Len(t.synth)]

s_speakText(t, r) ==
    IF r.text = t.lastSpokenMessage /\ ~r.priority THEN t
    ELSE IF t.isSpeaking /\ ~r.priority
    THEN [t EXCEPT !.announcementQueue = Append(@, r),
                   !.owed = Append(@, r)]
    ELSE [s_cancel(t) EXCEPT
              !.timers = Append(@, [kind |-> "speak", req |-> r]),
              !.prioOwed = IF t.isSpeaking /\ r.priority THEN r.id ELSE @]

\* processAnnouncementQueue (history: a queued request that the duplicate
\* filter drops is no longer owed)
s_processAnnouncementQueue(t) ==
    IF t.announcementQueue # <<>> /\ ~t.isSpeaking
    THEN LET next == Head(t.announcementQueue)
             a == [t EXCEPT !.announcementQueue = Tail(@),
                            !.owed = IF next.text = t.lastSpokenMessage
                                     THEN SeqMinus(@, next.id) ELSE @]
         IN  s_speakText(a, [next EXCEPT !.priority = FALSE])
    ELSE t

\* utterance.onstart
s_onstart(t, u) ==
    [t EXCEPT !.isSpeaking = TRUE, !.lastSpokenMessage = u.text,
              !.started = u,
              !.again = \E i \in 1..Len(t.recent) : t.recent[i].text = u.text,
              !.recent = Append(@, u),
              !.owed = SeqMinus(@, u.id),
              !.overtaken = u.id \in t.ahead,
              !.ahead = IF u.id = t.follow THEN {} ELSE @,
              !.follow = IF u.id = t.follow THEN 0 ELSE @,
              !.prioOwed = IF u.id = t.prioOwed THEN 0 ELSE @]

\* utterance.onend
s_onend(t, u) ==
    LET a == [t EXCEPT !.isSpeaking = FALSE,
                       !.timers = Append(@, [kind |-> "clear", req |-> u])]
        b == IF u.cb # "none"
             THEN [a EXCEPT !.timers = Append(@, [kind |-> "complete", req |-> u]),
                            !.ahead = Ids(t.announcementQueue)]
             ELSE a
    IN  s_processAnnouncementQueue(b)

\* utterance.onerror
s_onerror(t) ==
    s_processAnnouncementQueue([t EXCEPT !.isSpeaking = FALSE, !.errors = @ - 1])

\* the 100 ms timer of speakText: window.speechSynthesis.speak(utterance)
s_speakTimer(t, r) == [t EXCEPT !.synth = Append(@, [req |-> r, started |-> FALSE])]

\* setTimeout(onComplete, 100): the callback speaks its follow-up sentence
s_onComplete(t, u) ==
    LET k == t.n + 1
    IN  s_speakText([t EXCEPT !.n = k, !.follow = k],
                    Request(k, FollowUp, u.cb = "sayNow", "none"))

\* the 5000 ms timer of utterance.onend
s_clearTimer(t) == [t EXCEPT !.lastSpokenMessage = ""]

SpeechBecomes(t) == tts' = t /\ UNCHANGED <<pageVars, port, guide, gps, rt, cmd, store, track>>

\* history: no utterance started in this step yet
Calm == [tts EXCEPT !.started = Request(0, "", FALSE, "none"),
                    !.again = FALSE, !.overtaken = FALSE]

\* the timers that run after 100 ms, in the order they were set; a 5000 ms
\* timer set before them may still be waiting
Short(t) == SelectSeq(t.timers, LAMBDA x : x.kind # "clear")

DropFirstShort(s) ==
    LET i == CHOOSE j \in 1..Len(s) :
                 s[j].kind # "clear" /\ \A k \in 1..(j - 1) : s[k].kind = "clear"
    IN  SubSeq(s, 1, i - 1) \o SubSeq(s, i + 1, Len(s))

SpeechRequest(text, priority, cb) ==
    /\ tts.n < MaxReq
    /\ tts.errors = 0
    /\ SpeechBecomes(s_speakText([Calm EXCEPT !.n = @ + 1],
                                 Request(tts.n + 1, text, priority, cb)))

SpeechTimer ==
    /\ tts.errors = 0
    /\ Short(tts) # <<>>
    /\ Head(Short(tts)).kind = "speak"
    /\ SpeechBecomes(s_speakTimer([Calm EXCEPT !.timers = DropFirstShort(@)],
                                  Head(Short(tts)).req))

SpeechCompletion ==
    /\ tts.errors = 0
    /\ Short(tts) # <<>>
    /\ Head(Short(tts)).kind = "complete"
    /\ SpeechBecomes(s_onComplete([Calm EXCEPT !.timers = DropFirstShort(@)],
                                  Head(Short(tts)).req))

\* five seconds have passed since the oldest recent utterance started
SpeechFiveSeconds ==
    /\ tts.recent # <<>>
    /\ SpeechBecomes([Calm EXCEPT !.recent = Tail(@)])

SpeechClearTimer ==
    /\ tts.errors = 0
    /\ tts.timers # <<>>
    /\ Head(tts.timers).kind = "clear"
    /\ Head(tts.timers).req.id \notin Ids(tts.recent)
    /\ SpeechBecomes(s_clearTimer([Calm EXCEPT !.timers = Tail(@)]))

SpeechStart ==
    /\ tts.errors = 0
    /\ tts.synth # <<>>
    /\ ~Head(tts.synth).started
    /\ SpeechBecomes(s_onstart([Calm EXCEPT !.synth[1].started = TRUE],
                               Head(tts.synth).req))

SpeechEnd ==
    /\ tts.errors = 0
    /\ tts.synth # <<>>
    /\ Head(tts.synth).started
    /\ SpeechBecomes(s_onend([Calm EXCEPT !.synth = Tail(@)], Head(tts.synth).req))

\* the error event of a removed utterance is delivered before anything else
SpeechError ==
    /\ tts.errors > 0
    /\ SpeechBecomes(s_onerror(Calm))

SpeechNext ==
    \/ \E text \in Texts, priority \in BOOLEAN, cb \in Callbacks :
          SpeechRequest(text, priority, cb)
    \/ SpeechTimer
    \/ SpeechCompletion
    \/ SpeechFiveSeconds
    \/ SpeechClearTimer
    \/ SpeechStart
    \/ SpeechEnd
    \/ SpeechError

SpecSpeech == Init /\ [][SpeechNext]_vars

(* ------------- GPS fixes and the best fix, specification SpecGps -------- *)
\* where a fix can lie; "solo" is inside the default-location box
\* (lat in (-7.6, -7.5), lng in (110.8, 110.9)), the places are more than
\* 50 m apart
GpsPlaces == {"solo", "east", "west"}
\* e.accuracy in metres; 0 stands for a fix without accuracy
GpsAccuracies == {0, 20, 100, 800, 15000}
MAX_ACCEPTABLE_ACCURACY == 500
LowAccuracy == 10000
RetryAccuracy == 5000
NoAccuracy == 50000

isNearSurakarta(e) == e.pos = "solo"
\* const accuracy = e.accuracy || 50000
accuracyOf(e) == IF e.acc = 0 THEN NoAccuracy ELSE e.acc
isLowAccuracy(e) == accuracyOf(e) > LowAccuracy
isUnacceptableAccuracy(e) == accuracyOf(e) > MAX_ACCEPTABLE_ACCURACY

\* the three branches at the head of onLocationFound: does the handler
\* return there
gpsBlockedDefault(g, e) ==
    \/ isNearSurakarta(e) /\ isLowAccuracy(e)
    \/ isUnacceptableAccuracy(e) /\ g.best.has /\ g.best.acc < accuracyOf(e)

gpsBlocked(g, e) ==
    IF isNearSurakarta(e) /\ isLowAccuracy(e)
    THEN g.best.has /\ g.best.acc < accuracyOf(e)
    ELSE IF isUnacceptableAccuracy(e)
    THEN g.best.has /\ g.best.acc < accuracyOf(e)
    ELSE FALSE

\* bestGPSLocation after the three branches
gpsBestLatest(g, e) ==
    IF ~(isNearSurakarta(e) /\ isLowAccuracy(e)) /\ ~isUnacceptableAccuracy(e)
    THEN [has |-> TRUE, pos |-> e.pos, acc |-> accuracyOf(e)]
    ELSE g.best

gpsBest(g, e) ==
    IF ~(isNearSurakarta(e) /\ isLowAccuracy(e)) /\ ~isUnacceptableAccuracy(e)
       /\ (~g.best.has \/ accuracyOf(e) < g.best.acc)
    THEN [has |-> TRUE, pos |-> e.pos, acc |-> accuracyOf(e)]
    ELSE g.best

\* the marker part of onLocationFound (currentUserPosition); "back" tells
\* that the handler returns after putting the marker on the best fix
gpsMarker(g, e) ==
    IF g.marker # "none"
    THEN LET shouldUpdate == \/ ~isUnacceptableAccuracy(e)
                             \/ ~g.best.has
                             \/ accuracyOf(e) < g.best.acc
         IN  IF shouldUpdate THEN [pos |-> e.pos, back |-> FALSE]
             ELSE [pos |-> g.best.pos, back |-> TRUE]
    ELSE LET markerLocation ==
                 IF g.best.has /\ ~isUnacceptableAccuracy(e) THEN g.best.pos
                 ELSE IF isUnacceptableAccuracy(e) /\ g.best.has THEN g.best.pos
                 ELSE e.pos
         IN  [pos |-> markerLocation, back |-> FALSE]

\* onLocationFound(e), the position part
gps_onLocationFound(g, e) ==
    IF gpsBlocked(g, e)
    THEN [g EXCEPT !.fix = e, !.rejected = TRUE]
    ELSE LET a == [g EXCEPT !.fix = e, !.rejected = FALSE, !.best = gpsBest(g, e),
                            !.status = IF isNearSurakarta(e) /\ isLowAccuracy(e)
                                       THEN "inaccurate" ELSE "updated"]
             m == gpsMarker(a, e)
         IN  IF m.back THEN [a EXCEPT !.marker = m.pos, !.rejected = TRUE]
             ELSE [a EXCEPT \* the marker is forced onto e.latlng when more than 50 m off
                            !.marker = e.pos,
                            \* if (latLngB && destinationMarker) updateRoute(e.latlng)
                            !.start = IF g.dest THEN e.pos ELSE @]

\* requestLocation: the first getCurrentPosition answer
gps_position(g, e) ==
    IF isNearSurakarta(e) /\ e.acc > RetryAccuracy
    THEN [g EXCEPT !.req = "fresh", !.held = e, !.status = "getting fresh"]
    ELSE gps_onLocationFound([g EXCEPT !.req = "idle"], e)

GpsBecomes(g) == gps' = g /\ UNCHANGED <<pageVars, port, guide, tts, rt, cmd, store, track>>

GpsFixes == [pos : GpsPlaces, acc : GpsAccuracies]

\* history: no fix was processed in this step yet
Still == [gps EXCEPT !.fix = [pos |-> "none", acc |-> 0], !.rejected = FALSE]

\* map.locate: a locationfound event
GpsLocationFound(e) ==
    /\ e \in GpsFixes
    /\ GpsBecomes(gps_onLocationFound(Still, e))

\* updateDestination / clearing the destination
GpsDestination(b) == gps.dest # b /\ GpsBecomes([Still EXCEPT !.dest = b, !.start = IF b THEN gps.marker ELSE "none"])

GpsRequestLocation ==
    /\ gps.req = "idle"
    /\ GpsBecomes([Still EXCEPT !.req = "first", !.status = "requesting"])

GpsPosition(e) ==
    /\ gps.req = "first"
    /\ GpsBecomes(gps_position(Still, e))

GpsFreshPosition(e) ==
    /\ gps.req = "fresh"
    /\ GpsBecomes(gps_onLocationFound([Still EXCEPT !.req = "idle"], e))

GpsFreshError ==
    /\ gps.req = "fresh"
    /\ GpsBecomes(gps_onLocationFound(
                     [Still EXCEPT !.req = "idle", !.status = "using available"], gps.held))

GpsRequestError ==
    /\ gps.req = "first"
    /\ GpsBecomes([Still EXCEPT !.req = "idle", !.status = "error"])

GpsNext ==
    \/ \E e \in GpsFixes : GpsLocationFound(e)
    \/ \E b \in BOOLEAN : GpsDestination(b)
    \/ GpsRequestLocation
    \/ \E e \in GpsFixes : GpsPosition(e)
    \/ \E e \in GpsFixes : GpsFreshPosition(e)
    \/ GpsFreshError
    \/ GpsRequestError

SpecGps == Init /\ [][GpsNext]_vars

(* ------------- routing controls, specification SpecRoute --------------- *)
\* The routing controls themselves: which are on the map, which requests are
\* in flight (map.removeControl does not withdraw a request), and what the
\* control's waypoints look like to updateRoute: their coordinates can be
\* read ("readable": an array, or lat/lng as numbers or functions) or not,
\* in which case updateRoute takes the new coordinates for the current ones.
MaxControls == 3
RtDests == {1, 2}
RtPlaces == {1, 2}

r_removeControl(t) ==
    IF t.cur.id # 0
    THEN [t EXCEPT !.onMap = @ \ {t.cur.id}, !.cur = NoCtl,
                   !.shown = FALSE, !.retired = FALSE]
    ELSE t

\* L.Routing.control({waypoints: [from, to]}).addTo(map) and the handlers
\* registered on it
r_newControl(t, from, to, h, readable) ==
    [t EXCEPT !.n = @ + 1,
              !.cur = [id |-> t.n + 1, start |-> from, end |-> to,
                       handlers |-> h, readable |-> readable],
              !.onMap = @ \cup {t.n + 1},
              !.inflight = @ \cup {[id |-> t.n + 1, handlers |-> h]},
              !.requested = TRUE]

\* forceUpdateRoute that keeps the old control on the map
r_forceUpdateRouteKeep(t, readable) ==
    r_newControl(t, t.marker, t.latLngB, "force", readable)

r_forceUpdateRoute(t, readable) ==
    r_newControl(r_removeControl(t), t.marker, t.latLngB, "force", readable)

r_updateRoute(t, p, readable) ==
    IF t.latLngB = 0 THEN t
    ELSE IF t.cur.id = 0 THEN r_newControl(t, p, t.latLngB, "first", readable)
    ELSE LET currentStart == IF t.cur.readable THEN t.cur.start ELSE p
             currentEnd == IF t.cur.readable THEN t.cur.end ELSE t.latLngB
             startChanged == currentStart # p
             endChanged == currentEnd # t.latLngB
         IN  IF endChanged
             THEN r_newControl(r_removeControl(t), p, t.latLngB, "rebuilt", readable)
             ELSE IF startChanged
             THEN \* route.setWaypoints([newStart, newEnd])
                  [t EXCEPT !.cur.start = p,
                            !.inflight = @ \cup {[id |-> t.cur.id, handlers |-> t.cur.handlers]},
                            !.requested = TRUE]
             ELSE t

\* updateDestination that leaves the navigation state and the hash alone
r_updateDestinationKeep(t, d, readable) ==
    LET b == [t EXCEPT !.latLngB = d, !.failed = FALSE, !.destined = TRUE]
    IN  IF b.marker # 0 THEN r_forceUpdateRoute(b, readable) ELSE b

r_updateDestination(t, d, readable) ==
    LET a == IF t.isNavigating
             THEN [t EXCEPT !.isNavigating = FALSE, !.announced = FALSE]
             ELSE t
        b == [a EXCEPT !.latLngB = d, !.lastRouteHash = 0, !.failed = FALSE,
                       !.destined = TRUE,
                       !.midNav = t.isNavigating /\ t.announced /\ t.retired]
    IN  IF b.marker # 0 THEN r_forceUpdateRoute(b, readable) ELSE b

\* the routesfound handlers; q is the request that is answered, fresh tells
\* that the first control's handler takes the route for a new one
r_routesfound(t, q, fresh) ==
    [t EXCEPT !.inflight = @ \ {q},
              !.isNavigating = FALSE, !.announced = FALSE,
              !.shown = @ \/ q.id = t.cur.id,
              !.retired = @ /\ q.id # t.cur.id,
              !.inPlace = q.id = t.cur.id,
              !.lastRouteHash = IF q.handlers = "first" /\ fresh THEN q.id ELSE @]

\* the routingerror handlers; the control created in updateRoute's
\* endChanged branch has none
r_routingerror(t, q) ==
    [t EXCEPT !.inflight = @ \ {q},
              !.failed = TRUE,
              !.spoke = q.handlers # "rebuilt"]

\* the end of startTurnByTurnNavigation's announcements
r_startNavigation(t) ==
    [t EXCEPT !.isNavigating = TRUE, !.announced = @ \/ t.shown]

\* the timers of onLocationFound: an instruction is announced, a row retired
r_guidance(t) ==
    IF t.isNavigating /\ t.shown
    THEN [t EXCEPT !.announced = TRUE, !.retired = TRUE]
    ELSE t

r_onLocationFound(t, p, readable) ==
    LET a == [t EXCEPT !.marker = p, !.located = TRUE]
    IN  IF a.latLngB # 0 THEN r_updateRoute(a, p, readable) ELSE a

\* drawRoute(start, end) of the port
r_drawRoute(t) ==
    LET a == IF t.routeRef # 0
             THEN [t EXCEPT !.portMap = @ \ {t.routeRef}, !.routeRef = 0]
             ELSE t
    IN  [a EXCEPT !.routeRef = t.routeRef + 1, !.portMap = @ \cup {t.routeRef + 1}]

RouteBecomes(t) == rt' = t /\ UNCHANGED <<pageVars, port, guide, tts, gps, cmd, store, track>>

\* history: what this step has done so far
Fresh == [rt EXCEPT !.requested = FALSE, !.spoke = FALSE, !.inPlace = FALSE,
                    !.destined = FALSE, !.located = FALSE]

RtSetDestination(d, readable) ==
    /\ rt.n < MaxControls
    /\ RouteBecomes(r_updateDestination(Fresh, d, readable))

RtLocationFound(p, readable) ==
    /\ rt.n < MaxControls
    /\ RouteBecomes(r_onLocationFound(Fresh, p, readable))

RtRoutesFound(q, fresh) ==
    /\ q \in rt.inflight
    /\ RouteBecomes(r_routesfound(Fresh, q, fresh))

RtRoutingError(q) ==
    /\ q \in rt.inflight
    /\ RouteBecomes(r_routingerror(Fresh, q))

RtStartNavigation ==
    /\ rt.cur.id # 0 /\ rt.marker # 0
    /\ RouteBecomes(r_startNavigation(Fresh))

RtGuidance ==
    /\ rt.isNavigating
    /\ RouteBecomes(r_guidance(Fresh))

RtPortDrawRoute ==
    /\ rt.routeRef < MaxControls
    /\ RouteBecomes(r_drawRoute(Fresh))

RtRequests == [id : 1..(MaxControls + 1), handlers : {"force", "first", "rebuilt"}]

RouteNext ==
    \/ \E d \in RtDests, readable \in BOOLEAN : RtSetDestination(d, readable)
    \/ \E p \in RtPlaces, readable \in BOOLEAN : RtLocationFound(p, readable)
    \/ \E q \in RtRequests, fresh \in BOOLEAN : RtRoutesFound(q, fresh)
    \/ \E q \in RtRequests : RtRoutingError(q)
    \/ RtStartNavigation
    \/ RtGuidance
    \/ RtPortDrawRoute

SpecRoute == Init /\ [][RouteNext]_vars

(* ------------------------------ claims --------------------------------- *)
\* steps, recognised by what they consume or deliver
RecognitionStarts == engine # "on" /\ engine' = "on"
EndEventStep == engine # "off" /\ engine' = "off"
AutoRestartStep == autoRestart' < autoRestart
ConfirmTimerStep == confirmTimers' < confirmTimers
RouteResultStep == route.pending /\ ~route'.pending

\* no callback is pending
Quiescent == Tasks(Cur) = 0

\* C1: once StartNavigation has been processed with a route and a position,
\* no callback starts recognition until Activate is processed (the start by
\* the 100 ms timer of an earlier Activate and starts by a click are left out).
C1_SilentUntilActivate ==
    [][(navSilenced /\ navSilenced' /\ RecognitionStarts) => haloStart' < haloStart]_vars

\* C2: the 1000 ms auto-restart callback never starts recognition when it
\* fires in a state where isNavigating is true.
C2_NoAutoRestartWhileNavigating ==
    [][(AutoRestartStep /\ isNavigating) =>
          (engine' = engine /\ isListening' = isListening)]_vars

\* C2 witness: an auto-restart callback has just fired with isNavigating true
\* and everything else permitting a start, and recognition is not running.
C2_Witness == heldBack /\ isNavigating /\ ~isListening /\ engine = "off"

\* C3: a step that delivers a route result (routesfound, also the one that
\* follows a position update's start-point change) never sets isNavigating
\* back to false.
C3_RouteResultKeepsNavigating ==
    [][(isNavigating /\ RouteResultStep) => isNavigating']_vars

\* C4: isNavigating becomes true only while a route and a user position
\* exist (stated for the port, whose navigation branch sets it at once).
C4_NavigatingNeedsRouteAndPosition ==
    [][(~port.isNavigating /\ port'.isNavigating) =>
          (port.routeRef /\ port.userMarker)]_vars

\* The same statement for the page script: isNavigating becomes true only in
\* the completion of the route summary that startTurnByTurnNavigation
\* started, with a route and a position present, and a StartNavigation
\* without route or position starts no announcement chain.
PageNavigatingNeedsRouteAndPosition ==
    [][/\ (~isNavigating /\ isNavigating') =>
             /\ completions # <<>> /\ Head(completions).cb = "nav2"
             /\ route # NoRoute /\ userPos # 0
       /\ (route = NoRoute \/ userPos = 0) =>
             (\A i \in 1..Len(speakTimers') : speakTimers'[i].cb # "nav1")]_vars

\* The port's auto-restart callback never starts recognition while
\* isNavigatingRef is true, and its confirmation timeout stops recognition.
PortTimersRevalidate ==
    [][/\ (port'.autoRestart < port.autoRestart /\ port.isNavigating) =>
             (port'.engine = port.engine /\ port'.isListening = port.isListening)
       /\ (port'.confirmTimers < port.confirmTimers /\ port.waiting /\ port.isListening) =>
             (port'.engine # "on" /\ port'.stopped /\ ~port'.waiting /\ ~port'.isListening)
       /\ (port.engine # "off" /\ port'.engine = "off" /\ port.stopped) =>
             port'.autoRestart = port.autoRestart]_vars

\* C5: a confirmation timeout that fires after StartNavigation was processed
\* changes neither the recognizer, nor the flags, nor the status.
C5_LateTimeoutIsNoOp ==
    [][(ConfirmTimerStep /\ navSilenced) =>
          /\ engine' = engine /\ isListening' = isListening
          /\ stopped' = stopped /\ waiting' = waiting
          /\ isNavigating' = isNavigating /\ voiceStatus' = voiceStatus]_vars

\* C6: when no callback is pending any more, a destination resolved while the
\* microphone was Listening has led to the confirmation window being opened.
C6_WindowOpensAfterDestination == Quiescent => ~waitOwed

\* C7: when no callback is pending any more, a StartNavigation accepted in the
\* confirmation window has led to isNavigating being set.
C7_NavigationStartsAfterCommand == Quiescent => ~navOwed

C9_RestartExactlyWhenUnexpectedEnd ==
    [][EndEventStep =>
          /\ autoRestart' > autoRestart => (~stopped /\ ~isNavigating)
          /\ (engine = "on" /\ isListening /\ ~stopped /\ ~isNavigating)
                => autoRestart' > autoRestart
          /\ toggledOff => autoRestart' = autoRestart]_vars

\* C10: after a 'not-allowed' error nothing starts recognition before a click
\* or touch has been handled.
C10_NoStartUntilGesture ==
    [][(denied /\ RecognitionStarts) => ~denied']_vars

\* C11: a 'no-speech' or 'aborted' error leaves isListening, the stopped and
\* waiting flags, hasUserInteraction and isNavigating as they were, writes no
\* status and requests no speech.
C11_TransientErrorChangesNothing ==
    [][lastError' \in {"no-speech", "aborted"} =>
          /\ isListening' = isListening /\ stopped' = stopped /\ waiting' = waiting
          /\ hasUserInteraction' = hasUserInteraction /\ isNavigating' = isNavigating
          /\ voiceStatus' = voiceStatus /\ clickArmed' = clickArmed
          /\ speakTimers' = speakTimers /\ synth' = synth
          /\ isSpeaking' = isSpeaking]_vars

\* C11 witness: a transient error was just handled while the microphone was
\* listening in the confirmation window.
C11_Witness == lastError \in {"no-speech", "aborted"} /\ isListening /\ waiting

\* C12: when no callback is pending any more, an Activate processed while the
\* microphone was not listening has been followed by a start of recognition.
C12_ActivateReopensMicrophone == Quiescent => ~haloOwed

\* steps of the guidance specification
GuideDestinationStep == ~guide.pending /\ guide'.pending /\ guide'.rid = 0
GuideNextStep == guide'.nextTimers < guide.nextTimers
GuideUpdateStep ==
    /\ Len(guide'.rtTimers) < Len(guide.rtTimers)
    /\ guide.isNavigating /\ guide.rid # 0
GuideSameItinerary ==
    guide'.rid = guide.rid /\ guide.rid # 0 /\ ~(guide.pending /\ ~guide'.pending)

\* C13: a step that is not a destination change removes no text from the
\* announced set and, while the same route is shown, un-hides no row.
C13_AnnouncedAndRetiredMonotonic ==
    [][~GuideDestinationStep =>
          /\ guide.announced \subseteq guide'.announced
          /\ (guide'.rid = guide.rid /\ guide.rid # 0) =>
                \A i \in 1..Len(guide.rows) :
                    guide.rows[i].hidden => guide'.rows[i].hidden]_vars

\* C14: between two destination changes no instruction row is spoken by
\* guidance a second time.
C14_InstructionSpokenOnce == ~guide.respoken

\* the rows that read (0, 200] m, are not generic and were not spoken yet
Owed(g) ==
    {i \in 1..Len(g.rows) :
        /\ ~Generic(TextOf(g, i))
        /\ parseDistance(g.rows[i].cell) > 0
        /\ parseDistance(g.rows[i].cell) <= AnnounceRange
        /\ <<g.rid, i>> \notin g.spokenRows}

\* C15: while navigating, a run of announceNextDirection that finds an
\* instruction in range and not yet spoken speaks an instruction.
C15_InRangeInstructionAnnounced ==
    [][(GuideNextStep /\ guide.isNavigating /\ guide.rid # 0 /\ Owed(guide) # {})
          => guide'.said # 0]_vars

\* the distance the claim calls original: the one rendered with the route,
\* or, when the itinerary shows none, the one updateRealTimeInstructions
\* looks up in the route data
Original(g, i) ==
    IF RouteData(g.rid)[i].dist # 0 \/ i = 1 THEN RouteData(g.rid)[i].dist
    ELSE RouteData(g.rid)[i - 1].cum

\* C16: an update writes, for every row not hidden, the remaining distance
\* max(0, original - distanceTraveled) (0 for the departure row), and an
\* update at the distanceTraveled of the update before changes no row.
C16_RemainingFromOriginalDistance ==
    [][GuideUpdateStep =>
          /\ \A i \in 1..Len(guide.rows) :
                ~guide.rows[i].hidden =>
                    guide'.rows[i].cell =
                        formatDistance(IF i = 1 THEN 0
                                       ELSE Max(0, Original(guide, i) - guide'.lastT))
          /\ (guide'.lastT = guide.lastT) => guide'.rows = guide.rows]_vars

\* C17: with the same itinerary shown, an update at a distanceTraveled not
\* below that of the update before raises no row's remaining distance, and
\* no step shows a hidden row again.
C17_RemainingNonIncreasing ==
    [][GuideSameItinerary =>
          /\ (GuideUpdateStep /\ guide.lastT >= 0 /\ guide'.lastT >= guide.lastT) =>
                \A i \in 1..Len(guide.rows) :
                    parseDistance(guide'.rows[i].cell) <= parseDistance(guide.rows[i].cell)
          /\ \A i \in 1..Len(guide.rows) :
                guide.rows[i].hidden => guide'.rows[i].hidden]_vars

\* C17 witness: two updates of one itinerary, the second further along the
\* route; a row is hidden and another shows less than when it was rendered.
C17_Witness ==
    /\ guide.rid # 0 /\ guide.prevT >= 0 /\ guide.lastT > guide.prevT
    /\ \E i, j \in 1..Len(guide.rows) :
          /\ i > 1 /\ guide.rows[i].hidden
          /\ ~guide.rows[j].hidden
          /\ parseDistance(guide.rows[j].cell) < RouteData(guide.rid)[j].dist

\* steps of the announcement queue
SpeechDequeueStep == Len(tts'.announcementQueue) < Len(tts.announcementQueue)
SpeechStartStep == tts'.started.id # 0
\* nothing is left that would make the engine speak
SpeechQuiet(t) == Short(t) = <<>> /\ t.synth = <<>> /\ t.errors = 0

\* C18: an utterance that starts with the text of one that started less than
\* five seconds earlier comes from a request with priority true
C18_NoRepeatWithinFiveSeconds == tts.again => tts.started.priority

\* C19: when a queued announcement is dequeued no onComplete callback is
\* still waiting to run, and no announcement that was waiting in the queue
\* when an utterance with a callback ended starts before the sentence the
\* callback speaks
C19_OnCompleteBeforeDequeue ==
    [][/\ SpeechDequeueStep =>
             \A i \in 1..Len(tts'.timers) : tts'.timers[i].kind # "complete"
       /\ ~tts'.overtaken]_vars

\* C20: requests queued while an utterance is spoken start in the order they
\* were requested and none is left unspoken when the engine has nothing more
\* to do; a priority request made while an utterance is spoken is the next
\* one to start
C20_QueueFifoAndPriorityNext ==
    [][/\ (SpeechStartStep /\ tts'.started.id \in Ids(tts.owed)) =>
             tts'.started.id = Head(tts.owed).id
       /\ (SpeechStartStep /\ tts.prioOwed # 0) => tts'.started.id = tts.prioOwed
       /\ SpeechQuiet(tts') => (tts'.owed = <<>> /\ tts'.prioOwed = 0)]_vars

\* a step that processed a fix
GpsFixStep == gps'.fix.pos # "none"

\* C21: once a best fix exists its accuracy value never grows, and a fix
\* inside the default-location box whose accuracy is worse than the best
\* fix's leaves the best fix as it is
C21_BestFixNeverWorse ==
    [][/\ gps.best.has => (gps'.best.has /\ gps'.best.acc <= gps.best.acc)
       /\ (GpsFixStep /\ isNearSurakarta(gps'.fix) /\ gps.best.has
              /\ accuracyOf(gps'.fix) > gps.best.acc) => gps'.best = gps.best]_vars

C21_Witness ==
    /\ gps.best.has /\ gps.best.acc < 100
    /\ isNearSurakarta(gps.fix) /\ accuracyOf(gps.fix) > gps.best.acc

\* C22: a fix inside the default-location box with accuracy above 10 km that
\* arrives while there is no best fix is accepted: the marker and the start
\* handed to routing move to it, and the status flags it as possibly
\* inaccurate
C22_DefaultFixAcceptedLowConfidence ==
    [][(GpsFixStep /\ isNearSurakarta(gps'.fix) /\ isLowAccuracy(gps'.fix)
          /\ ~gps.best.has) =>
            /\ ~gps'.rejected
            /\ gps'.marker = gps'.fix.pos
            /\ gps.dest => gps'.start = gps'.fix.pos
            /\ gps'.status = "inaccurate"]_vars

C22_Witness ==
    /\ isNearSurakarta(gps.fix) /\ gps.fix.acc = 15000 /\ ~gps.best.has
    /\ gps.marker = gps.fix.pos /\ gps.status = "inaccurate"

\* C23: after a fix is processed the marker is on the best fix when the
\* fix's accuracy is unacceptable and on the fix otherwise; a rejected fix
\* leaves the best fix, the marker, the routing start and the status alone
C23_EffectivePosition ==
    [][GpsFixStep =>
          /\ gps'.marker = IF isUnacceptableAccuracy(gps'.fix) /\ gps'.best.has
                            THEN gps'.best.pos ELSE gps'.fix.pos
          /\ gps'.rejected => /\ gps'.best = gps.best
                               /\ gps'.marker = gps.marker
                               /\ gps'.start = gps.start
                               /\ gps'.status = gps.status]_vars

\* C24: at most one routing control is on the map at any time, in the page
\* script and in the port, whatever was created, replaced or answered before
C24_OneActiveRoute ==
    /\ Cardinality(rt.onMap) <= 1
    /\ rt.onMap = (IF rt.cur.id = 0 THEN {} ELSE {rt.cur.id})
    /\ Cardinality(rt.portMap) <= 1

C24_Witness ==
    /\ rt.n >= 2 /\ rt.onMap = {rt.cur.id}
    /\ \E q \in rt.inflight : q.id # rt.cur.id
    /\ rt.routeRef >= 2

\* C25: a destination change during navigation takes the old control off the
\* map, creates a new one with a new request, resets the route hash and
\* leaves nothing announced or retired; nothing is announced or retired when
\* the new route has been found
C25_DestinationChangeRebuilds ==
    [][/\ (rt'.destined /\ rt.isNavigating) =>
             /\ rt.cur.id \notin rt'.onMap
             /\ rt'.cur.id > rt.n
             /\ rt'.requested
             /\ rt'.lastRouteHash = 0
             /\ ~rt'.isNavigating /\ ~rt'.announced /\ ~rt'.retired
       /\ rt'.inPlace => (~rt'.announced /\ ~rt'.retired)]_vars

C25_Witness == rt.midNav /\ rt.inPlace /\ rt.latLngB = 2 /\ ~rt.announced /\ ~rt.retired

\* C26: after a routing failure no routing request is issued by any step
\* other than a new destination
C26_NoRetryAfterFailure ==
    [][(rt.failed /\ ~rt'.destined) => ~rt'.requested]_vars

\* ---------------------------------------------------------------------------
\* Voice commands: handleVoiceCommand (part_002:2155-2375), extractLocation
\* (2572-2587), handleRouteCommand (1729-1796), handleCreateRouteCommand
\* (1800-1834), geocodeLocation (2591-2786); the port's handleVoiceCommand
\* (map.tsx:474-633). A transcript is a sequence of words.
\* ---------------------------------------------------------------------------
MaxHeard == 2

\* String.toLowerCase on one word
toLowerCase(w) ==
    IF w = "Rute" THEN "rute" ELSE IF w = "Halo" THEN "halo"
    ELSE IF w = "Buat" THEN "buat" ELSE w

\* replace(/[.,;:!?]/g, '') on one word
noPunctuation(w) ==
    IF w = "jakarta." THEN "jakarta" ELSE IF w = "satu." THEN "satu"
    ELSE IF w = "2." THEN "2" ELSE w

\* command = transcript.toLowerCase().trim()
lower(t) == [i \in 1..Len(t) |-> toLowerCase(t[i])]

\* cleanCommand = command.replace(/[.,;:!?]/g, '').trim()
clean(t) == [i \in 1..Len(t) |-> noPunctuation(toLowerCase(t[i]))]

NumberWords == <<"satu", "dua", "tiga", "empat", "lima", "enam">>
DigitTokens == <<"0", "1", "2", "3", "4", "5", "6", "7", "8", "9">>

isNumberWord(w) == \E i \in 1..6 : NumberWords[i] = w
isDigits(w) == \E i \in 1..10 : DigitTokens[i] = w

\* a parseInt that never leaves 1..6
parseIntClamped(w) ==
    LET v == (CHOOSE i \in 1..10 : DigitTokens[i] = w) - 1
    IN  IF v > 6 THEN 6 ELSE IF v < 1 THEN 1 ELSE v

\* parseInt on a word of digits
parseInt(w) ==
    (CHOOSE i \in 1..10 : DigitTokens[i] = w) - 1

\* a routeNumberMap whose words are one off
routeNumberMapShifted(w) ==
    IF isNumberWord(w) THEN ((CHOOSE i \in 1..6 : NumberWords[i] = w) % 6) + 1
    ELSE IF isDigits(w) /\ parseInt(w) \in 1..6 THEN parseInt(w)
    ELSE 0

\* routeNumberMap[w]; 0 stands for undefined
routeNumberMap(w) ==
    IF isNumberWord(w) THEN CHOOSE i \in 1..6 : NumberWords[i] = w
    ELSE IF isDigits(w) /\ parseInt(w) \in 1..6 THEN parseInt(w)
    ELSE 0

\* what is left of a word that begins with w and goes on; "" when it does not
restOf(word, w) ==
    IF word = "kemang" /\ w = "ke" THEN "mang"
    ELSE IF word = "rute2" /\ w = "rute" THEN "2"
    ELSE ""

Activation == {<<"halo">>, <<"hello">>, <<"aktivasi">>, <<"activate">>,
               <<"buka", "mikrofon">>, <<"aktifkan">>}

\* /^rute\s+(satu|dua|tiga|empat|lima|enam|\d+)$/
routeMatch(c) ==
    Len(c) = 2 /\ c[1] = "rute" /\ (isNumberWord(c[2]) \/ isDigits(c[2]))

\* /^rute\s*(\d+)$/ and its group; "" when there is no match
routeMatchNumber(c) ==
    IF Len(c) = 2 /\ c[1] = "rute" /\ isDigits(c[2]) THEN c[2]
    ELSE IF Len(c) = 1 /\ isDigits(restOf(c[1], "rute")) THEN restOf(c[1], "rute")
    ELSE ""

\* the separators " ke " that leave something before and something after
Separators(c) == {i \in 6..(Len(c) - 1) : c[i] = "ke"}

\* /^buat\s+rute\s+(satu|dua|tiga|empat|lima|enam|\d+)\s+dari\s+(.+?)\s+ke\s+(.+)$/
createRouteMatch(c) ==
    /\ Len(c) >= 7
    /\ c[1] = "buat" /\ c[2] = "rute"
    /\ isNumberWord(c[3]) \/ isDigits(c[3])
    /\ c[4] = "dari"
    /\ Separators(c) # {}

\* a split of the create command at its last separator
createGroupsGreedy(c) ==
    LET i == CHOOSE k \in Separators(c) : \A j \in Separators(c) : k >= j
    IN  [x |-> SubSeq(c, 5, i - 1), y |-> SubSeq(c, i + 1, Len(c))]

\* groups 2 and 3: (.+?) ends at the first separator
createGroups(c) ==
    LET i == CHOOSE k \in Separators(c) : \A j \in Separators(c) : k <= j
    IN  [x |-> SubSeq(c, 5, i - 1), y |-> SubSeq(c, i + 1, Len(c))]

\* routeNumberMap[routeWord] || parseInt(routeWord)
createRouteId(c) ==
    IF routeNumberMap(c[3]) # 0 THEN routeNumberMap(c[3]) ELSE parseInt(c[3])

\* cleanCommand.includes(phrase), phrase of two words
includes(c, a, b) == \E i \in 1..(Len(c) - 1) : c[i] = a /\ c[i + 1] = b

navigationCommand(c) ==
    \/ c = <<"navigasi">> \/ c = <<"mulai">>
    \/ includes(c, "mulai", "rute") \/ includes(c, "mulai", "navigasi")
    \/ includes(c, "ikut", "rute")

\* the keys of knownCities that the transcripts here can name
Gazetteer == {"jakarta", "solo", "bandung"}

\* knownCities[cityKey]
knownCity(c) == Len(c) = 1 /\ c[1] \in Gazetteer

Prefixes == << <<"pergi", "ke">>, <<"navigasi", "ke">>, <<"tujuan", "ke">>, <<"ke">>,
               <<"go", "to">>, <<"navigate", "to">>, <<"set", "destination">>,
               <<"go">>, <<"navigate">>, <<"destination">> >>

\* command.startsWith(prefix)
startsWith(c, p) ==
    /\ Len(c) >= Len(p)
    /\ \A i \in 1..(Len(p) - 1) : c[i] = p[i]
    /\ c[Len(p)] = p[Len(p)] \/ restOf(c[Len(p)], p[Len(p)]) # ""

\* command.substring(prefix.length).trim()
substring(c, p) ==
    (IF c[Len(p)] = p[Len(p)] THEN <<>> ELSE <<restOf(c[Len(p)], p[Len(p)])>>)
        \o SubSeq(c, Len(p) + 1, Len(c))

\* extractLocation: the first prefix that fits is cut off; without one the
\* whole command is the location
extractLocation(c) ==
    IF \E k \in 1..Len(Prefixes) : startsWith(c, Prefixes[k])
    THEN LET k == CHOOSE k \in 1..Len(Prefixes) :
                    /\ startsWith(c, Prefixes[k])
                    /\ \A j \in 1..(k - 1) : ~startsWith(c, Prefixes[j])
         IN  substring(c, Prefixes[k])
    ELSE c

\* speakText(...) was called
c_speak(c, told) == [c EXCEPT !.spoke = TRUE, !.told = told]

\* updateDestination: the destination is replaced, navigation ends, and a route
\* is requested when the position is known
c_updateDestination(c, name) ==
    [c EXCEPT !.dest = name, !.isNavigating = FALSE, !.route = c.pos \/ c.route]

\* the activation branch: the microphone is started by a 100 ms timer
c_activate(c) ==
    IF ~c.isListening THEN [c EXCEPT !.haloTimer = TRUE]
    ELSE c_speak(c, "micActive")

\* handleRouteCommand
c_handleRouteCommand(c, routeId) ==
    LET r == [c EXCEPT !.slotRead = @ \cup {routeId}]
    IN  IF c.slots[routeId].start = <<>> \/ c.slots[routeId].end = <<>>
        THEN c_speak(r, "slotEmpty")
        ELSE [c_speak(r, "selected") EXCEPT !.isListening = FALSE, !.announce = routeId]

\* setRoute and the announcement that follows it
c_setRoute(c, routeId, x, y) ==
    [c_speak(c, "created") EXCEPT !.slots[routeId] = [start |-> x, end |-> y],
                                  !.slotRead = @ \cup {routeId},
                                  !.slotWritten = @ \cup {routeId}]

\* geocodeLocationForRoute on the end name: the gazetteer answers at once
c_geocodeEnd(c, routeId, x, y) ==
    IF knownCity(clean(y)) THEN c_setRoute(c, routeId, x, y)
    ELSE [c EXCEPT !.create = @ \cup {[id |-> routeId, x |-> x, y |-> y, stage |-> "end"]},
                   !.asked = @ \cup {y}]

\* handleCreateRouteCommand
c_handleCreateRouteCommand(c, routeId, x, y) ==
    IF knownCity(clean(x)) THEN c_geocodeEnd(c, routeId, x, y)
    ELSE [c EXCEPT !.create = @ \cup {[id |-> routeId, x |-> x, y |-> y, stage |-> "start"]},
                   !.asked = @ \cup {x}]

\* the callbacks of geocodeLocationForRoute
c_createResponse(c, r, found) ==
    LET d == [c EXCEPT !.create = @ \ {r}]
    IN  IF ~found THEN c_speak(d, "notFound")
        ELSE IF r.stage = "start" THEN c_geocodeEnd(d, r.id, r.x, r.y)
        ELSE c_setRoute(d, r.id, r.x, r.y)

\* startTurnByTurnNavigation up to its first announcement
c_startTurnByTurnNavigation(c) ==
    IF ~c.route THEN c_speak(c, "noRoute")
    ELSE IF ~c.pos THEN c_speak(c, "noPosition")
    ELSE [c_speak(c, "starting") EXCEPT !.isListening = FALSE, !.navPending = TRUE]

\* a destination is announced: the microphone closes until the announcements end
c_announceDestination(c, name) ==
    c_updateDestination([c_speak(c, "destination") EXCEPT !.isListening = FALSE,
                                                           !.reopen = TRUE], name)

\* geocodeLocation up to its fetch
c_geocodeLocation(c, location) ==
    [c_speak(c, "searching") EXCEPT !.geo = @ \cup {location},
                                    !.asked = @ \cup {location}]

\* geocodeLocation after its fetch
c_geocodeResponse(c, location, outcome) ==
    LET d == [c EXCEPT !.geo = @ \ {location}]
    IN  IF outcome = "found" \/ knownCity(clean(location))
        THEN c_announceDestination(d, location)
        ELSE [c_speak(d, "notFound") EXCEPT !.isListening = FALSE]

\* handleVoiceCommand of the page
c_handleVoiceCommand(c, transcript) ==
    LET command == lower(transcript)
        cleanCommand == clean(transcript)
        h == [c EXCEPT !.heard = transcript]
    IN  IF cleanCommand \in Activation
        THEN c_activate([h EXCEPT !.kind = "Activate"])
        ELSE IF routeMatch(cleanCommand) /\ routeNumberMap(cleanCommand[2]) # 0
        THEN LET routeId == routeNumberMap(cleanCommand[2])
             IN  c_handleRouteCommand([h EXCEPT !.kind = "SelectRoute", !.id = routeId],
                                      routeId)
        ELSE IF routeMatchNumber(cleanCommand) # ""
        THEN LET routeId == parseInt(routeMatchNumber(cleanCommand))
             IN  IF routeId >= 1 /\ routeId <= 6
                 THEN c_handleRouteCommand([h EXCEPT !.kind = "SelectRoute", !.id = routeId],
                                           routeId)
                 ELSE c_speak([h EXCEPT !.kind = "RangeError"], "range")
        ELSE IF createRouteMatch(cleanCommand)
        THEN LET routeId == createRouteId(cleanCommand)
                 g == createGroups(cleanCommand)
             IN  IF routeId >= 1 /\ routeId <= 6
                 THEN c_handleCreateRouteCommand(
                          [h EXCEPT !.kind = "CreateRoute", !.id = routeId,
                                    !.x = g.x, !.y = g.y], routeId, g.x, g.y)
                 ELSE c_speak([h EXCEPT !.kind = "RangeError"], "range")
        ELSE IF navigationCommand(cleanCommand)
        THEN c_startTurnByTurnNavigation([h EXCEPT !.kind = "StartNavigation"])
        ELSE IF knownCity(cleanCommand)
        THEN c_announceDestination([h EXCEPT !.kind = "SetDestination", !.x = cleanCommand],
                                   cleanCommand)
        ELSE LET location == extractLocation(command)
             IN  IF location # <<>>
                 THEN c_geocodeLocation([h EXCEPT !.kind = "SetDestination", !.x = location],
                                        location)
                 ELSE [h EXCEPT !.kind = "Unknown", !.told = "notUnderstood"]

\* the port sets a destination: setDestination, drawRoute when the position
\* is known, the microphone closes for the announcement
tsx_voiceDestination(c, name) ==
    [c_speak(c, "destination") EXCEPT !.dest = name, !.route = c.pos \/ c.route,
                                      !.isListening = FALSE, !.reopen = TRUE]

\* handleVoiceDestination of the port: the gazetteer, then the geocoder
tsx_handleVoiceDestination(c, text) ==
    IF knownCity(clean(text))
    THEN tsx_voiceDestination([c EXCEPT !.x = text], clean(text))
    ELSE [c EXCEPT !.x = text, !.geo = @ \cup {text}, !.asked = @ \cup {text}]

\* the port's answer from the geocoder
tsx_geocodeResponse(c, text, outcome) ==
    LET d == [c EXCEPT !.geo = @ \ {text}]
    IN  IF outcome = "found" THEN tsx_voiceDestination(d, text)
        ELSE c_speak(d, "notFound")

\* handleVoiceCommand of the port; onresult has lowered the transcript
tsx_handleVoiceCommand(c, transcript) ==
    LET text == lower(transcript)
        cleanCommand == clean(transcript)
        h == [c EXCEPT !.heard = transcript]
    IN  IF cleanCommand \in Activation
        THEN c_activate([h EXCEPT !.kind = "Activate"])
        ELSE IF \/ cleanCommand = <<"navigasi">> \/ cleanCommand = <<"mulai">>
                \/ includes(cleanCommand, "mulai", "rute")
                \/ includes(cleanCommand, "mulai", "navigasi")
        THEN [c_speak(h, "starting") EXCEPT !.kind = "StartNavigation",
                                            !.isListening = FALSE, !.isNavigating = TRUE]
        ELSE LET location == extractLocation(text)
             IN  tsx_handleVoiceDestination([h EXCEPT !.kind = "SetDestination"],
                     IF location # <<>> THEN location ELSE text)

CommandBecomes(c) == cmd' = c /\ UNCHANGED <<pageVars, port, guide, tts, gps, rt, store, track>>

\* history: what the step being taken has done so far
Hush == [cmd EXCEPT !.heard = <<>>, !.kind = "none", !.id = 0, !.x = <<>>, !.y = <<>>,
                    !.spoke = FALSE, !.told = "none", !.asked = {},
                    !.slotRead = {}, !.slotWritten = {}]

CmdWords == {"halo", "rute", "rute2", "navigasi", "mulai", "ke",
             "jakarta.", "pasar", "kemang"}

\* what a route number is said as
NumberTokens == {NumberWords[i] : i \in 1..6} \cup {DigitTokens[i] : i \in 1..10}

\* place names, some made of command words
Names == {<<"jakarta">>, <<"halo">>, <<"mulai", "rute">>,
          <<"ke", "pasar">>, <<"pasar", "ke", "solo">>}

\* 'buat rute N dari X ke Y' as it is said
CreateTranscript(n, x, y) == <<"buat", "rute", n, "dari">> \o x \o <<"ke">> \o y

\* one or two words, as the port and the page may hear them
ShortTranscripts ==
    {<<a>> : a \in CmdWords} \cup {<<a, b>> : a \in CmdWords, b \in CmdWords}

\* every route number with one pair of names, two route numbers with every pair
Transcripts ==
    ShortTranscripts
    \cup {<<r, w>> : r \in {"rute", "Rute"}, w \in NumberTokens \cup {"satu.", "2."}}
    \cup {CreateTranscript(n, <<"jakarta">>, <<"pasar">>) : n \in NumberTokens}
    \cup {CreateTranscript(n, x, y) : n \in {"dua", "2"}, x \in Names, y \in Names}

\* what localStorage holds when the page starts
SavedSlots ==
    {EmptySlots,
     [EmptySlots EXCEPT ![2] = [start |-> <<"jakarta">>, end |-> <<"solo">>]]}

\* the page or its port starts; initializeSavedRoutes reads the saved routes
CmdLoad(b, saved) ==
    /\ cmd.build = "none"
    /\ b = "port" => saved = EmptySlots
    /\ CommandBecomes([Hush EXCEPT !.build = b, !.slots = saved])

\* recognition.onresult with a final transcript, on the page
CmdHear(t) ==
    /\ cmd.build = "page"
    /\ cmd.n < MaxHeard
    /\ CommandBecomes(c_handleVoiceCommand([Hush EXCEPT !.n = @ + 1], t))

\* recog.onresult with a final transcript, in the port
CmdPortHear(t) ==
    /\ cmd.build = "port"
    /\ cmd.n < MaxHeard
    /\ CommandBecomes(tsx_handleVoiceCommand([Hush EXCEPT !.n = @ + 1], t))

\* the 100 ms timer of the activation branch
CmdHaloTimer ==
    /\ cmd.haloTimer
    /\ CommandBecomes([c_speak(Hush, "micStarted") EXCEPT !.haloTimer = FALSE,
                                                           !.isListening = TRUE])

\* the geocoder answers a destination search
CmdGeocodeResponse(location, outcome) ==
    /\ location \in cmd.geo
    /\ CommandBecomes(IF cmd.build = "page"
                      THEN c_geocodeResponse(Hush, location, outcome)
                      ELSE tsx_geocodeResponse(Hush, location, outcome))

\* the geocoder answers a search made for a route slot
CmdCreateResponse(r, found) ==
    /\ r \in cmd.create
    /\ CommandBecomes(c_createResponse(Hush, r, found))

\* the announcement of a selected route ends: its end becomes the destination
CmdRouteAnnounced ==
    /\ cmd.announce # 0
    /\ CommandBecomes([c_updateDestination(Hush, cmd.slots[cmd.announce].end)
                          EXCEPT !.announce = 0, !.reopen = TRUE])

\* the 500 ms timer that reopens the microphone after an announcement
CmdReopen ==
    /\ cmd.reopen
    /\ CommandBecomes([Hush EXCEPT !.reopen = FALSE, !.isListening = TRUE])

\* the announcements of startTurnByTurnNavigation end
CmdNavigationAnnounced ==
    /\ cmd.navPending
    /\ CommandBecomes([Hush EXCEPT !.navPending = FALSE, !.isNavigating = TRUE])

\* a first fix: the marker is placed and a route requested to the destination
CmdLocationFound ==
    /\ cmd.build # "none" /\ ~cmd.pos
    /\ CommandBecomes([Hush EXCEPT !.pos = TRUE, !.route = cmd.dest # <<>>])

\* the searches that can be under way
GeoTexts ==
    {extractLocation(lower(t)) : t \in Transcripts} \cup {lower(t) : t \in ShortTranscripts}

CreateCommands == {clean(t) : t \in {u \in Transcripts : createRouteMatch(clean(u))}}

CreateRequests ==
    {[id |-> createRouteId(c), x |-> createGroups(c).x, y |-> createGroups(c).y,
      stage |-> s] : c \in CreateCommands, s \in {"start", "end"}}

CommandNext ==
    \/ \E b \in {"page", "port"}, saved \in SavedSlots : CmdLoad(b, saved)
    \/ \E t \in Transcripts : CmdHear(t)
    \/ \E t \in ShortTranscripts : CmdPortHear(t)
    \/ CmdHaloTimer
    \/ \E location \in GeoTexts, outcome \in {"found", "none", "error"} :
           CmdGeocodeResponse(location, outcome)
    \/ \E r \in CreateRequests, found \in BOOLEAN : CmdCreateResponse(r, found)
    \/ CmdRouteAnnounced
    \/ CmdReopen
    \/ CmdNavigationAnnounced
    \/ CmdLocationFound

SpecCommand == Init /\ [][CommandNext]_vars

\* a transcript was handled by the page in the step being taken
PageHeardStep == cmd'.build = "page" /\ cmd'.heard # <<>>

\* C27: on the page every failure the user has to learn of by voice - a
\* command that is not understood, a destination or a route end that is not
\* found, a navigation start without route or position, a route number out of
\* range, an empty route slot - is spoken in the step that detects it.
C27_FailureIsSpoken ==
    [][(cmd'.build = "page"
        /\ cmd'.told \in {"notUnderstood", "notFound", "noRoute", "noPosition",
                          "range", "slotEmpty"})
       => cmd'.spoke]_vars

\* no pattern of handleVoiceCommand fits and no location is left to look up
Unrecognised(t) ==
    /\ clean(t) \notin Activation
    /\ ~routeMatch(clean(t)) /\ routeMatchNumber(clean(t)) = ""
    /\ ~createRouteMatch(clean(t))
    /\ ~navigationCommand(clean(t))
    /\ ~knownCity(clean(t))
    /\ extractLocation(lower(t)) = <<>>

\* C28: a transcript that fits no command pattern is taken as Unknown and gets
\* the 'not understood' message only: no geocoding request, and destination,
\* route, microphone and isNavigating stay as they were; on the page and in
\* the port.
C28_UnknownOnlyFeedback ==
    [][(cmd'.heard # <<>> /\ Unrecognised(cmd'.heard))
       => /\ cmd'.kind = "Unknown"
          /\ cmd'.asked = {} /\ cmd'.geo = cmd.geo
          /\ cmd'.dest = cmd.dest /\ cmd'.route = cmd.route
          /\ cmd'.isListening = cmd.isListening
          /\ cmd'.isNavigating = cmd.isNavigating]_vars

\* C29: on the page, for every id in 1..6, 'rute <word>' and 'rute <digit>'
\* are both taken as SelectRoute(id), and the step is handleRouteCommand(id)
\* on the state before it, whichever form was said.
C29_WordAndDigitSelectSameRoute ==
    [][\A i \in 1..6 :
          (PageHeardStep
           /\ cmd'.heard \in {<<"rute", NumberWords[i]>>, <<"rute", DigitTokens[i + 1]>>})
          => cmd' = c_handleRouteCommand(
                        [Hush EXCEPT !.n = @ + 1, !.heard = cmd'.heard,
                                     !.kind = "SelectRoute", !.id = i], i)]_vars

\* 'rute dua' has selected the saved route 2
C29_Witness ==
    /\ cmd.build = "page" /\ cmd.heard = <<"rute", "dua">>
    /\ cmd.kind = "SelectRoute" /\ cmd.id = 2
    /\ cmd.told = "selected" /\ cmd.announce = 2 /\ cmd.slotRead = {2}

\* the number a route is called by
NumberValue(n) ==
    IF isNumberWord(n) THEN CHOOSE i \in 1..6 : NumberWords[i] = n ELSE parseInt(n)

\* the word 'ke' does not occur in a name after its first word
NoInnerSeparator(x) == \A i \in 2..Len(x) : x[i] # "ke"

\* 'buat rute n dari x ke y' was taken as CreateRoute(n, x, y): the step is
\* handleCreateRouteCommand(n, x, y) on the state before it, and no
\* destination was set
CreatedAsSaid(n, x, y) ==
    /\ cmd'.kind = "CreateRoute" /\ cmd'.id = NumberValue(n)
    /\ cmd'.x = x /\ cmd'.y = y
    /\ cmd'.dest = cmd.dest
    /\ cmd' = c_handleCreateRouteCommand(
                  [Hush EXCEPT !.n = @ + 1, !.heard = cmd'.heard, !.kind = "CreateRoute",
                               !.id = NumberValue(n), !.x = x, !.y = y],
                  NumberValue(n), x, y)

\* C30, as amended: on the page 'buat rute N dari X ke Y' with N in 1..6, said
\* as a word or a digit, is taken as CreateRoute(N, X, Y) - not as an
\* activation, a route selection, a navigation start or a destination - also
\* when X or Y holds command words, provided 'ke' does not occur in X after
\* its first word.
C30_CreateRouteParsed ==
    [][(PageHeardStep /\ Len(cmd'.heard) >= 7)
       => \A n \in NumberTokens, x \in Names, y \in Names :
             (/\ cmd'.heard = CreateTranscript(n, x, y)
              /\ NumberValue(n) \in 1..6
              /\ NoInnerSeparator(x))
             => CreatedAsSaid(n, x, y)]_vars

\* a route is created from 'mulai rute' to 'pasar ke solo'
C30_Witness ==
    /\ cmd.build = "page"
    /\ cmd.heard = CreateTranscript("2", <<"mulai", "rute">>, <<"pasar", "ke", "solo">>)
    /\ cmd.kind = "CreateRoute" /\ cmd.id = 2
    /\ cmd.x = <<"mulai", "rute">> /\ cmd.y = <<"pasar", "ke", "solo">>
    /\ cmd.asked = {<<"mulai", "rute">>}

\* C30 as stated: the same for every X and Y
C30_CreateRouteAnyNames ==
    [][(PageHeardStep /\ Len(cmd'.heard) >= 7)
       => \A n \in NumberTokens, x \in Names, y \in Names :
             (cmd'.heard = CreateTranscript(n, x, y) /\ NumberValue(n) \in 1..6)
             => CreatedAsSaid(n, x, y)]_vars

\* the digits that name no route
OutOfRangeDigits == {"0", "7", "8", "9"}

\* 'rute d' or 'buat rute d dari ... ke ...' with such a digit
OutOfRange(t) ==
    \/ Len(t) = 2 /\ clean(t)[1] = "rute" /\ clean(t)[2] \in OutOfRangeDigits
    \/ createRouteMatch(clean(t)) /\ clean(t)[3] \in OutOfRangeDigits

\* C31: on the page a route command with a number outside 1..6 gets the
\* spoken range error and nothing else: no slot is read or written, no
\* search is requested, and destination, route, microphone and navigation
\* stay as they were.
C31_OutOfRangeOnlyRangeError ==
    [][(PageHeardStep /\ OutOfRange(cmd'.heard))
       => /\ cmd'.kind = "RangeError" /\ cmd'.spoke /\ cmd'.told = "range"
          /\ cmd'.slotRead = {} /\ cmd'.slotWritten = {} /\ cmd'.slots = cmd.slots
          /\ cmd'.asked = {} /\ cmd'.geo = cmd.geo /\ cmd'.create = cmd.create
          /\ cmd'.dest = cmd.dest /\ cmd'.route = cmd.route
          /\ cmd'.announce = cmd.announce
          /\ cmd'.isListening = cmd.isListening
          /\ cmd'.isNavigating = cmd.isNavigating]_vars

\* 'buat rute 9 dari jakarta ke pasar' was answered with the range error
\* while route 2 is saved and a destination is set
C31_Witness ==
    /\ cmd.build = "page"
    /\ cmd.heard = CreateTranscript("9", <<"jakarta">>, <<"pasar">>)
    /\ cmd.kind = "RangeError" /\ cmd.spoke
    /\ cmd.dest # <<>> /\ cmd.slots[2].end # <<>>

\* C35: when the text taken as a destination is a name of the gazetteer, no
\* geocoding request is sent for it; on the page and in the port.
C35_GazetteerBeforeGeocoder ==
    [][(cmd'.heard # <<>> /\ cmd'.kind = "SetDestination" /\ knownCity(clean(cmd'.x)))
       => cmd'.asked = {}]_vars

\* ---------------------------------------------------------------------------
\* The route store: initializeSavedRoutes (part_002:1539-1596),
\* loadRoutesFromFirestore (1644-1676), saveRouteToFirestore (1678-1690),
\* getRouteById and setRoute (1700-1726), deleteRoute (2079-2108).
\* ---------------------------------------------------------------------------
MaxData == 2
MaxWrites == 2

\* the slots a run sets and deletes
StoreIds == {1, 2}

\* what localStorage may hold under 'senavision_saved_routes' when the page
\* starts: nothing, what the page wrote before, a shorter list, a list whose
\* only slot is route 2, a list of seven
PersistedContents ==
    {<<>>, SixEmpty, [SixEmpty EXCEPT ![2] = Slot(2, 1)], SubSeq(SixEmpty, 1, 3),
     <<Slot(2, 1)>>, SixEmpty \o <<Slot(7, 0)>>}

\* while (savedRoutes.length < 6) savedRoutes.push({id: savedRoutes.length + 1, ...})
RECURSIVE padRoutes(_)
padRoutes(s) ==
    IF Len(s) < 6 THEN padRoutes(Append(s, Slot(Len(s) + 1, 0))) ELSE s

\* initializeSavedRoutes up to the Firestore load: the saved list, or six empty
\* slots when there is none
initializeSavedRoutes(persisted) ==
    IF Len(persisted) = 0 THEN SixEmpty ELSE padRoutes(persisted)

\* savedRoutes.find(r => r.id === routeId) as an index; 0 when there is none
getRouteById(s, routeId) ==
    IF \E k \in 1..Len(s) : s[k].id = routeId
    THEN CHOOSE k \in 1..Len(s) : s[k].id = routeId /\ \A j \in 1..(k - 1) : s[j].id # routeId
    ELSE 0

\* the content of a slot; 0 when the id is not in the store
dataOf(s, routeId) ==
    IF getRouteById(s, routeId) = 0 THEN 0 ELSE s[getRouteById(s, routeId)].data

\* saveRouteToFirestore / deleteRouteFromFirestore: the write is queued when
\* Firestore is there
st_cloudWrite(t, routeId, d) ==
    IF t.db THEN [t EXCEPT !.writes = Append(@, Slot(routeId, d))] ELSE t

\* setRoute, and deleteRoute after its confirmation, with d = 0
st_setRoute(t, routeId, d) ==
    LET k == getRouteById(t.savedRoutes, routeId)
    IN  IF k = 0 THEN t
        ELSE LET u == [t EXCEPT !.savedRoutes[k].data = d]
             IN  st_cloudWrite([u EXCEPT !.localStorage = u.savedRoutes,
                                         !.touched = IF t.loading THEN @ \cup {routeId}
                                                     ELSE @],
                               routeId, d)

\* loadRoutesFromFirestore after col.get(), and the then-branch of
\* initializeSavedRoutes: savedRoutes = cloudRoutes, saved to localStorage
st_loadRoutesFromFirestore(t, snapshot) ==
    LET cloudRoutes == [i \in 1..6 |-> Slot(i, snapshot[i])]
    IN  [t EXCEPT !.savedRoutes = cloudRoutes, !.localStorage = cloudRoutes,
                  !.loading = FALSE, !.touched = {}]

\* the documents of the cloud with the queued writes laid over them
RECURSIVE overlay(_, _)
overlay(cloud, writes) ==
    IF writes = <<>> THEN cloud
    ELSE overlay([cloud EXCEPT ![Head(writes).id] = Head(writes).data], Tail(writes))

StoreBecomes(t) == store' = t /\ UNCHANGED <<pageVars, port, guide, tts, gps, rt, cmd, track>>

\* history: what the step being taken is
Idle == [store EXCEPT !.did = "none"]

\* the page starts: initializeSavedRoutes; the cloud load is started when
\* Firestore is there
StoreInitialize(persisted, db, cloud) ==
    /\ store.phase = "none"
    /\ db \/ cloud = [i \in 1..6 |-> 0]
    /\ StoreBecomes([Idle EXCEPT !.phase = "ready", !.did = "init",
                                 !.savedRoutes = initializeSavedRoutes(persisted),
                                 !.localStorage = initializeSavedRoutes(persisted),
                                 !.db = db, !.cloud = cloud, !.sent = cloud,
                                 !.loading = db])

\* setRoute(routeId, start, end) from the route panel or a create command
StoreSet(routeId, d) ==
    /\ store.phase = "ready"
    /\ Len(store.writes) < MaxWrites
    /\ dataOf(store.savedRoutes, routeId) # d
    /\ StoreBecomes([st_setRoute(Idle, routeId, d) EXCEPT !.did = "set"])

\* deleteRoute(routeId) on a filled slot, confirmed
StoreDelete(routeId) ==
    /\ store.phase = "ready"
    /\ Len(store.writes) < MaxWrites
    /\ dataOf(store.savedRoutes, routeId) # 0
    /\ StoreBecomes([st_setRoute(Idle, routeId, 0) EXCEPT !.did = "delete"])

\* a queued write reaches the cloud
StoreCloudWrite ==
    /\ store.writes # <<>>
    /\ StoreBecomes([Idle EXCEPT !.writes = Tail(@), !.did = "written",
                                 !.cloud[Head(store.writes).id] = Head(store.writes).data])

\* a queued write fails: the catch only warns
StoreCloudWriteFails ==
    /\ store.writes # <<>>
    /\ StoreBecomes([Idle EXCEPT !.writes = Tail(@), !.did = "writeFailed"])

\* col.get() resolves with the documents as they were when it was sent, as
\* they are now, or as they are now with the queued writes laid over them
StoreLoaded(view) ==
    /\ store.loading
    /\ StoreBecomes([st_loadRoutesFromFirestore(Idle,
                          CASE view = "sent" -> store.sent
                            [] view = "now" -> store.cloud
                            [] OTHER -> overlay(store.cloud, store.writes))
                        EXCEPT !.did = "loaded"])

\* col.get() fails: loadRoutesFromFirestore returns false
StoreLoadFails ==
    /\ store.loading
    /\ StoreBecomes([Idle EXCEPT !.loading = FALSE, !.touched = {}, !.did = "loadFailed"])

Clouds == [1..6 -> {0}] \cup {[i \in 1..6 |-> IF i = 1 THEN 1 ELSE 0]}

StoreNext ==
    \/ \E persisted \in PersistedContents, db \in BOOLEAN, cloud \in Clouds :
           StoreInitialize(persisted, db, cloud)
    \/ \E routeId \in StoreIds, d \in 1..MaxData : StoreSet(routeId, d)
    \/ \E routeId \in StoreIds : StoreDelete(routeId)
    \/ StoreCloudWrite
    \/ StoreCloudWriteFails
    \/ \E view \in {"sent", "now", "local"} : StoreLoaded(view)
    \/ StoreLoadFails

SpecStore == Init /\ [][StoreNext]_vars

\* C32: once initialised, the store holds six slots with the ids 1..6, each
\* once, whatever localStorage held and whatever was set, deleted or loaded.
C32_SixSlotsEachIdOnce ==
    store.phase = "ready" =>
        /\ Len(store.savedRoutes) = 6
        /\ \A i \in 1..6 : Cardinality({k \in 1..Len(store.savedRoutes) :
                                              store.savedRoutes[k].id = i}) = 1

\* C40: when a load of the store completes, every slot that was set or
\* deleted since the load was started keeps the content it had.
C40_LoadKeepsLocalChanges ==
    [][(store.loading /\ store'.did = "loaded")
       => \A i \in store.touched :
             dataOf(store'.savedRoutes, i) = dataOf(store.savedRoutes, i)]_vars

\* ---------------------------------------------------------------------------
\* Geolocation subscriptions: startLocationTracking and its callers
\* (part_002:1115-1217), the port's watcher effect (map.tsx:162-215).
\* ---------------------------------------------------------------------------
MaxSubs == 3
MaxLocating == 2
MaxGoals == 2

\* startLocationTracking: the running interval is cleared, locate() is called,
\* a new interval is set
startLocationTracking(t) ==
    [t EXCEPT !.intervals = (@ \ {t.locationInterval}) \cup {t.nextId},
              !.locationInterval = t.nextId,
              !.nextId = @ + 1,
              !.locating = IF @ < MaxLocating THEN @ + 1 ELSE @]

\* the effect on [permissionOpen, destination]: it returns early without the
\* map or with the popup open, else it registers a watcher and keeps its id;
\* it returns no cleanup. The watcher's callback keeps the destination of the
\* render that registered it
watcherEffect(t) ==
    IF ~t.mapReady \/ t.permissionOpen THEN t
    ELSE [t EXCEPT !.watches = @ \cup {[id |-> t.nextId, destination |-> t.destination]},
                   !.watchIdRef = t.nextId,
                   !.nextId = @ + 1]

TrackBecomes(t) ==
    track' = t /\ UNCHANGED <<pageVars, port, guide, tts, gps, rt, cmd, store>>

\* the script or the component starts; the component's effect runs on mount
TrackLoad(b) ==
    /\ track.b = "none"
    /\ TrackBecomes(IF b = "port" THEN watcherEffect([track EXCEPT !.b = b])
                    ELSE [track EXCEPT !.b = b, !.asked = TRUE])

\* setupLocationTracking's getCurrentPosition succeeds: permission was there
TrackPermitted ==
    /\ track.b = "page"
    /\ track.asked
    /\ track.nextId <= MaxSubs
    /\ TrackBecomes(startLocationTracking([track EXCEPT !.asked = FALSE,
                                                        !.hasPermission = TRUE]))

\* setupLocationTracking's getCurrentPosition fails: the popup stays
TrackRefused ==
    /\ track.b = "page"
    /\ track.asked
    /\ TrackBecomes([track EXCEPT !.asked = FALSE])

\* requestLocationPermission: the popup's button; tracking starts 2 s later
TrackRequestPermission ==
    /\ track.b = "page"
    /\ track.timeouts < MaxSubs
    /\ TrackBecomes([track EXCEPT !.timeouts = @ + 1])

\* the 2 s timeout of requestLocationPermission
TrackTimeout ==
    /\ track.b = "page"
    /\ track.timeouts > 0
    /\ track.nextId <= MaxSubs
    /\ TrackBecomes(startLocationTracking([track EXCEPT !.timeouts = @ - 1]))

\* a tick of a running interval: locate()
TrackTick ==
    /\ track.intervals # {}
    /\ track.locating < MaxLocating
    /\ TrackBecomes([track EXCEPT !.locating = @ + 1])

\* a locate() request is answered
TrackLocated ==
    /\ track.locating > 0
    /\ TrackBecomes([track EXCEPT !.locating = @ - 1])

\* the port's tryInit succeeds: mapRef is set, no effect depends on it
TrackMapReady ==
    /\ track.b = "port"
    /\ ~track.mapReady
    /\ TrackBecomes([track EXCEPT !.mapReady = TRUE])

\* the port's requestLocationPermission: setPermissionOpen(false)
TrackClosePopup ==
    /\ track.b = "port"
    /\ track.permissionOpen
    /\ track.nextId <= MaxSubs
    /\ TrackBecomes(watcherEffect([track EXCEPT !.permissionOpen = FALSE]))

\* the port's setDestination with a new object: the effect runs again
TrackDestination(d) ==
    /\ track.b = "port"
    /\ track.nextId <= MaxSubs
    /\ TrackBecomes(watcherEffect([track EXCEPT !.destination = d]))

\* a position reaches the watcher with this id: with a destination,
\* drawRoute(latlng, destination)
TrackPosition(id) ==
    /\ \E w \in track.watches : w.id = id
    /\ LET w == CHOOSE w \in track.watches : w.id = id
       IN  TrackBecomes([track EXCEPT !.drawn = IF w.destination # 0 THEN w.destination ELSE @])

\* the port unmounts: clearWatch(watchIdRef.current)
TrackUnmount ==
    /\ track.b = "port"
    /\ TrackBecomes([track EXCEPT !.b = "gone", !.watches = {w \in @ : w.id # track.watchIdRef}])

TrackingNext ==
    \/ \E b \in {"page", "port"} : TrackLoad(b)
    \/ TrackPermitted
    \/ TrackRefused
    \/ TrackRequestPermission
    \/ TrackTimeout
    \/ TrackTick
    \/ TrackLocated
    \/ TrackMapReady
    \/ TrackClosePopup
    \/ \E d \in 1..MaxGoals : TrackDestination(d)
    \/ \E id \in 1..MaxSubs : TrackPosition(id)
    \/ TrackUnmount

SpecTracking == Init /\ [][TrackingNext]_vars

\* C33: at most one geolocation subscription is active: one location
\* interval on the page, one position watcher in the port.
C33_OneSubscription ==
    /\ Cardinality(track.intervals) <= 1
    /\ Cardinality(track.watches) <= 1

\* a position update that finds a control and a destination
PositionWithRoute == rt'.located /\ rt.cur.id # 0 /\ rt.latLngB # 0

\* the control's routesfound for waypoints replaced after it had shown a route
ReplacedRouteFound == rt'.inPlace /\ rt.shown

\* the position update: a destination away from the route's end rebuilds the
\* route; else a start away from the route's start replaces the waypoints of
\* the same control, with nothing spoken and the navigation state kept; else
\* nothing is requested
UpdateByDistance ==
    PositionWithRoute =>
        IF rt.cur.end # rt.latLngB
        THEN rt.cur.id \notin rt'.onMap /\ rt'.cur.id > rt.n /\ rt'.requested
        ELSE IF rt.cur.start # rt'.marker
        THEN /\ rt'.cur.id = rt.cur.id /\ rt'.cur.start = rt'.marker /\ rt'.requested
             /\ ~rt'.spoke
             /\ rt'.isNavigating = rt.isNavigating
             /\ rt'.announced = rt.announced /\ rt'.retired = rt.retired
        ELSE ~rt'.requested

\* the route that answers replaced waypoints: nothing is spoken and the
\* navigation state is kept
ReplacedKeepsNavigation ==
    ReplacedRouteFound =>
        /\ ~rt'.spoke
        /\ rt'.isNavigating = rt.isNavigating
        /\ rt'.announced = rt.announced /\ rt'.retired = rt.retired

\* C34: a position update with an existing route rebuilds the route when the
\* destination is away from its end, else replaces the waypoints in place when
\* the start is away from its start, with no announcement and no reset of the
\* navigation state up to and including the route that answers, else requests
\* nothing.
C34_IncrementalUpdate == [][UpdateByDistance /\ ReplacedKeepsNavigation]_vars

\* C36: the timeout of an earlier confirmation window does not end a later
\* one: while a younger timeout is pending, the older one that fires leaves
\* the window and the microphone as they are. (All timeouts run 10 s, so
\* they fire in the order they were armed.)
C36_TimeoutEndsOnlyItsWindow ==
    [][(ConfirmTimerStep /\ confirmTimers >= 2)
       => (waiting' = waiting /\ isListening' = isListening /\ engine' = engine)]_vars

\* the delayed callbacks that call recognition.start(), when their own
\* conditions let them: the 100 ms callback of the activation branch, the
\* 1000 ms callback of recognition.onend, the 500 ms callbacks that reopen the
\* microphone after an announcement
DelayedStartAttempt ==
    \/ haloStart' < haloStart
    \/ AutoRestartStep /\ ~isListening /\ ~stopped /\ hasUserInteraction /\ ~isNavigating
    \/ Len(reopenTimers') < Len(reopenTimers) /\ ~isListening

\* C39: recognition is never started while the recognizer is still active:
\* whenever a delayed callback calls start(), the recognizer has ended.
C39_StartOnlyWhenEnded ==
    [][DelayedStartAttempt => engine = "off"]_vars

\* the requests with an onComplete that speakText still holds: queued, waiting
\* for the 100 ms timer, in the speech engine, or ended with the callback due
Holders(t) ==
    {t.announcementQueue[i].id : i \in {j \in 1..Len(t.announcementQueue) :
                                           t.announcementQueue[j].cb # "none"}}
    \cup {t.timers[i].req.id : i \in {j \in 1..Len(t.timers) :
                                          t.timers[j].kind # "clear"
                                          /\ t.timers[j].req.cb # "none"}}
    \cup {t.synth[i].req.id : i \in {j \in 1..Len(t.synth) : t.synth[j].req.cb # "none"}}

\* the requests whose onComplete is due
Due(t) ==
    {t.timers[i].req.id : i \in {j \in 1..Len(t.timers) : t.timers[j].kind = "complete"}}

\* C37: a request with an onComplete that speakText has taken up is held
\* until its callback runs: it leaves the queue, the timers and the engine
\* only through the callback that was due.
C37_CallbackNeverLost ==
    [][\A id \in Holders(tts) : id \in Holders(tts') \/ id \in Due(tts)]_vars

\* The announcement queue under plain requests alone (no priority, no
\* onComplete), which leaves room for one request more.
MaxPlain == 4

SpeechPlainRequest(text) ==
    /\ tts.n < MaxPlain
    /\ tts.errors = 0
    /\ SpeechBecomes(s_speakText([Calm EXCEPT !.n = @ + 1],
                                 Request(tts.n + 1, text, FALSE, "none")))

DrainNext ==
    \/ \E text \in Texts : SpeechPlainRequest(text)
    \/ SpeechTimer
    \/ SpeechFiveSeconds
    \/ SpeechClearTimer
    \/ SpeechStart
    \/ SpeechEnd
    \/ SpeechError

SpecDrain == Init /\ [][DrainNext]_vars

\* C38: when nothing is being spoken and nothing is pending, the
\* announcement queue is empty.
C38_QueueDrains ==
    (SpeechQuiet(tts) /\ ~tts.isSpeaking) => tts.announcementQueue = <<>>
====
